---- MODULE Spec2Model ----
(***************************************************************************)
(* FAQ retrieval core of myleo-legal: the bounded TTL cache                *)
(* (service/services/cacheService.js, class CacheService) and the RAG      *)
(* search service (service/server.js, class RagSearchService).             *)
(*                                                                         *)
(* Conventions.  A JavaScript string that is only compared is a TLA+       *)
(* string; undefined, null and '' (all falsy) are the empty string None.   *)
(* A query is the sequence of its space-separated words.  Weights and      *)
(* scores are integers: a weight is in hundredths, a relevance in          *)
(* hundredths, a score in ten-thousandths.  Date.now() is the variable     *)
(* now, read once per synchronous handler.  A JavaScript Map is the        *)
(* sequence of its entries in insertion order.                             *)
(***************************************************************************)
EXTENDS Integers, Sequences, FiniteSets, TLC

VARIABLES
    cache,        \* CacheService.cache: Map key -> {value, expires, created}
    accessOrder,  \* CacheService.accessOrder: Map key -> last access time
    now,          \* Date.now()
    lastOp,       \* the last cache call made by a client: op, key, branch, ret
    vq,           \* variant builder harness: the inputs and the list returned
    rag,          \* one RagSearchService.retrieve call in progress
    cacheDown,    \* whether the cache injected into the service throws on get / set
    fb,           \* one RagSearchService.searchFallback call in progress
    st,           \* stemWord harness: the stemmer, the word and the stem returned
    qa,           \* matcher harness: the query, the candidate rows and the match returned
    sched,        \* the scheduler worker: its flags, its runs and its triggers
    reqs,         \* the retrieve calls in flight at once, one per client
    chat          \* ChatService: its sessions, the conversations table, the calls in flight

\* the variables of the cache and of retrieve
core == <<cache, accessOrder, now, lastOp, vq, rag, cacheDown>>

\* the variables of the components added after the cache and retrieve
ext == <<fb, st, qa, sched, reqs, chat>>

vars == <<cache, accessOrder, now, lastOp, vq, rag, cacheDown, ext>>

None == ""

(***************************************************************************)
(* Bounds of the model                                                     *)
(***************************************************************************)
MaxTime == 2
maxEntries == 2
MaxRetrieves == 2
RagMaxTime == 1
MaxRows == 2

(***************************************************************************)
(* Small helpers                                                           *)
(***************************************************************************)
Max(a, b) == IF a >= b THEN a ELSE b

Min(a, b) == IF a <= b THEN a ELSE b

\* Array.prototype.includes on a sequence
Includes(s, x) == \E i \in 1..Len(s) : s[i] = x

(***************************************************************************)
(* RagSearchService: configuration                                         *)
(***************************************************************************)
\* config.x || default: a falsy (0, absent) setting takes the default
OrDefault(x, d) == IF x = 0 THEN d ELSE x

RagConfig(c) ==
    [ maxQueryVariants        |-> OrDefault(c.maxQueryVariants, 4),
      maxCandidatesPerVariant |-> 12,
      topKResults             |-> OrDefault(c.topKResults, 3),
      minScore                |-> c.minScore,
      cacheTtl                |-> OrDefault(c.cacheTtl, 2),
      rubriqueBoost           |-> 1500,
      productBoost            |-> 2000,
      variantDecay            |-> OrDefault(c.variantDecay, 15),
      fallbackLimit           |-> 5 ]

(***************************************************************************)
(* RagSearchService: synonym expansion                                     *)
(***************************************************************************)
SynonymWords == {"horaire", "prix", "support", "produit", "compte",
                 "paiement", "inscription"}

synonymMap ==
    [ w \in SynonymWords |->
        CASE w = "horaire"     -> << <<"heures">>, <<"ouverture">>, <<"fermeture">>,
                                     <<"disponibilite">> >>
          [] w = "prix"        -> << <<"tarif">>, <<"cout">>, <<"montant">>, <<"facture">> >>
          [] w = "support"     -> << <<"assistance">>, <<"aide">>, <<"contact">>,
                                     <<"service", "client">> >>
          [] w = "produit"     -> << <<"offre">>, <<"solution">>, <<"service">> >>
          [] w = "compte"      -> << <<"profil">>, <<"espace", "client">>,
                                     <<"identifiant">> >>
          [] w = "paiement"    -> << <<"reglement">>, <<"transaction">>,
                                     <<"facturation">> >>
          [] w = "inscription" -> << <<"adhesion">>, <<"enregistrement">>,
                                     <<"creation", "compte">> >> ]

\* query.replace(word, syn): the first occurrence of word is replaced.  No
\* word of the model's vocabulary is a substring of another, so the first
\* occurrence is the first equal word.
ReplaceFirst(query, word, syn) ==
    IF ~Includes(query, word) THEN query
    ELSE LET i == CHOOSE j \in 1..Len(query) :
                    query[j] = word /\ \A h \in 1..(j - 1) : query[h] # word
         IN  SubSeq(query, 1, i - 1) \o syn \o SubSeq(query, i + 1, Len(query))

\* Set.add on an insertion-ordered Set
SetAdd(s, x) == IF Includes(s, x) THEN s ELSE Append(s, x)

RECURSIVE AddSynonyms(_, _, _, _)
AddSynonyms(variants, query, word, syns) ==
    IF syns = << >> THEN variants
    ELSE AddSynonyms(SetAdd(variants, ReplaceFirst(query, word, Head(syns))),
                     query, word, Tail(syns))

RECURSIVE ExpandWords(_, _, _)
ExpandWords(variants, query, words) ==
    IF words = << >> THEN variants
    ELSE LET w == Head(words)
             v == IF w \in SynonymWords
                  THEN AddSynonyms(variants, query, w, synonymMap[w])
                  ELSE variants
         IN  ExpandWords(v, query, Tail(words))

expandSynonyms(query) == ExpandWords(<< >>, query, query)

(***************************************************************************)
(* RagSearchService: cache keys and query variants                         *)
(***************************************************************************)
\* `rag:${query}:${filterString}`: the query and the sorted, joined list of
\* the truthy filter entries, which is their set
buildCacheKey(query, filters) ==
    [ query   |-> query,
      filters |-> { <<n, filters[n]>> : n \in { m \in DOMAIN filters : filters[m] # None } } ]

\* session.rubrique.replace('_', ' ') as words
RubriqueWords(r) == IF r = "sales_funnel" THEN <<"sales", "funnel">> ELSE <<r>>

\* pushVariant of buildQueryVariants
PushQueryVariant(variants, variant, cfg) ==
    IF Len(variants) >= cfg.maxQueryVariants THEN variants
    ELSE Append(variants,
                [ query         |-> variant.query,
                  weight        |-> variant.weight,
                  reason        |-> variant.reason,
                  filters       |-> variant.filters,
                  allowFallback |-> variant.allowFallback,
                  cacheKey      |-> buildCacheKey(variant.query, variant.filters) ])

ContextWeight_NoDecay(cfg) == 100

\* 1.0 - this.config.variantDecay
ContextWeight(cfg) == 100 - cfg.variantDecay

\* Math.max(0.3, 1 - ((index + 1) * this.config.variantDecay))
SynonymWeight(index, cfg) == Max(30, 100 - ((index + 1) * cfg.variantDecay))

RECURSIVE PushSynonymVariants(_, _, _, _, _)
PushSynonymVariants(variants, keywordVariants, index, baseFilters, cfg) ==
    IF index >= Len(keywordVariants) THEN variants
    ELSE PushSynonymVariants(
            PushQueryVariant(variants,
                [ query         |-> keywordVariants[index + 1],
                  weight        |-> SynonymWeight(index, cfg),
                  reason        |-> "synonym",
                  filters       |-> baseFilters,
                  allowFallback |-> (index = 0) ], cfg),
            keywordVariants, index + 1, baseFilters, cfg)

buildQueryVariants(query, session, cfg) ==
    LET baseFilters == [ languageCode |-> session.languageCode,
                         rubrique     |-> session.rubrique,
                         productCode  |-> session.productCode ]
        v1 == PushQueryVariant(<< >>,
                [ query |-> query, weight |-> 100, reason |-> "base",
                  filters |-> baseFilters, allowFallback |-> TRUE ], cfg)
        v2 == IF session.productCode # None
              THEN PushQueryVariant(v1,
                     [ query |-> <<session.productCode>> \o query,
                       weight |-> ContextWeight(cfg), reason |-> "product",
                       filters |-> baseFilters, allowFallback |-> TRUE ], cfg)
              ELSE v1
        v3 == IF session.rubrique # None /\ session.rubrique # "general"
              THEN PushQueryVariant(v2,
                     [ query |-> RubriqueWords(session.rubrique) \o query,
                       weight |-> ContextWeight(cfg), reason |-> "rubrique",
                       filters |-> baseFilters, allowFallback |-> FALSE ], cfg)
              ELSE v2
    IN  PushSynonymVariants(v3, expandSynonyms(query), 0, baseFilters, cfg)

(***************************************************************************)
(* CacheService                                                            *)
(***************************************************************************)
\* config.ttl, in clock ticks
ttl == 2

\* The results of the cache methods below are records
\* [cache, accessOrder, ret]: the two maps after the call and its return value.
NullRet == [kind |-> "null"]

ValueRet(v) == [kind |-> "value", value |-> v]

BoolRet(b) == [kind |-> "bool", value |-> b]

UndefRet == [kind |-> "undefined"]

\* Map.prototype.has / get / set / delete on a sequence of entries with a key
MapHas(m, k) == \E i \in 1..Len(m) : m[i].key = k

MapGet(m, k) == m[CHOOSE i \in 1..Len(m) : m[i].key = k]

MapSet(m, e) ==
    IF MapHas(m, e.key)
    THEN [ i \in 1..Len(m) |-> IF m[i].key = e.key THEN e ELSE m[i] ]
    ELSE Append(m, e)

MapDelete(m, k) == SelectSeq(m, LAMBDA e : e.key # k)

MapKeys(m) == { m[i].key : i \in 1..Len(m) }

\* delete that forgets the last-access map
CacheDelete_KeepsAccessTime(c, ao, key) ==
    IF MapHas(c, key)
    THEN [cache |-> MapDelete(c, key), accessOrder |-> ao, ret |-> BoolRet(TRUE)]
    ELSE [cache |-> c, accessOrder |-> ao, ret |-> BoolRet(FALSE)]

CacheDelete(c, ao, key) ==
    IF MapHas(c, key)
    THEN [cache |-> MapDelete(c, key), accessOrder |-> MapDelete(ao, key),
          ret |-> BoolRet(TRUE)]
    ELSE [cache |-> c, accessOrder |-> ao, ret |-> BoolRet(FALSE)]

RECURSIVE OldestScan(_, _, _, _)
\* the loop of evictOldest: the first entry strictly older than every entry
\* before it and than oldestTime, which starts at Date.now()
OldestScan(ao, i, oldestKey, oldestTime) ==
    IF i > Len(ao) THEN oldestKey
    ELSE IF ao[i].time < oldestTime
         THEN OldestScan(ao, i + 1, <<ao[i].key>>, ao[i].time)
         ELSE OldestScan(ao, i + 1, oldestKey, oldestTime)

\* oldestKey is << >> for null and <<key>> for a key; every key of the model
\* is a non-empty string in the code, hence truthy
CacheEvictOldest(c, ao, t) ==
    IF Len(ao) = 0 THEN [cache |-> c, accessOrder |-> ao, ret |-> UndefRet]
    ELSE LET oldestKey == OldestScan(ao, 1, << >>, t)
         IN  IF oldestKey # << >>
             THEN [ CacheDelete(c, ao, oldestKey[1]) EXCEPT !.ret = UndefRet ]
             ELSE [cache |-> c, accessOrder |-> ao, ret |-> UndefRet]

CacheGet_KeepsExpired(c, ao, key, t) ==
    IF ~MapHas(c, key)
    THEN [cache |-> c, accessOrder |-> ao, ret |-> NullRet]
    ELSE IF t > MapGet(c, key).expires
         THEN [cache |-> c, accessOrder |-> ao, ret |-> NullRet]
         ELSE [cache |-> c,
               accessOrder |-> MapSet(ao, [key |-> key, time |-> t]),
               ret |-> ValueRet(MapGet(c, key).value)]

CacheGet(c, ao, key, t) ==
    IF ~MapHas(c, key)
    THEN [cache |-> c, accessOrder |-> ao, ret |-> NullRet]
    ELSE IF t > MapGet(c, key).expires
         THEN [ CacheDelete(c, ao, key) EXCEPT !.ret = NullRet ]
         ELSE [cache |-> c,
               accessOrder |-> MapSet(ao, [key |-> key, time |-> t]),
               ret |-> ValueRet(MapGet(c, key).value)]

CacheSet(c, ao, key, value, customTtl, t) ==
    LET useTtl  == IF customTtl = 0 THEN ttl ELSE customTtl
        expires == t + useTtl
        ev == IF Len(c) >= maxEntries /\ ~MapHas(c, key)
              THEN CacheEvictOldest(c, ao, t)
              ELSE [cache |-> c, accessOrder |-> ao, ret |-> UndefRet]
        entry == [key |-> key, value |-> value, expires |-> expires, created |-> t]
    IN  [cache |-> MapSet(ev.cache, entry),
         accessOrder |-> MapSet(ev.accessOrder, [key |-> key, time |-> t]),
         ret |-> UndefRet]

CacheHas(c, ao, key, t) ==
    IF ~MapHas(c, key)
    THEN [cache |-> c, accessOrder |-> ao, ret |-> BoolRet(FALSE)]
    ELSE IF t > MapGet(c, key).expires
         THEN [ CacheDelete(c, ao, key) EXCEPT !.ret = BoolRet(FALSE) ]
         ELSE [cache |-> c, accessOrder |-> ao, ret |-> BoolRet(TRUE)]

CacheClear(c, ao) ==
    [cache |-> << >>, accessOrder |-> << >>, ret |-> [kind |-> "count", value |-> Len(c)]]

RECURSIVE DeleteAll(_, _, _)
\* expiredKeys.forEach(key => this.delete(key))
DeleteAll(c, ao, keys) ==
    IF keys = << >> THEN [cache |-> c, accessOrder |-> ao, ret |-> UndefRet]
    ELSE LET d == CacheDelete(c, ao, Head(keys))
         IN  DeleteAll(d.cache, d.accessOrder, Tail(keys))

\* cleanup that also drops the entries expiring at this very instant
CacheCleanup_AtExpiry(c, ao, t) ==
    LET expired == SelectSeq(c, LAMBDA e : t >= e.expires)
        expiredKeys == [ i \in 1..Len(expired) |-> expired[i].key ]
    IN  DeleteAll(c, ao, expiredKeys)

CacheCleanup(c, ao, t) ==
    LET expired == SelectSeq(c, LAMBDA e : t > e.expires)
        expiredKeys == [ i \in 1..Len(expired) |-> expired[i].key ]
    IN  DeleteAll(c, ao, expiredKeys)

(***************************************************************************)
(* RagSearchService: filters and the fallback filter sets                  *)
(***************************************************************************)
buildFilters(session, variant, cfg) ==
    [ languageCode |-> session.languageCode,
      limit        |-> cfg.maxCandidatesPerVariant,
      rubrique     |-> IF variant.filters.rubrique # None
                       THEN variant.filters.rubrique
                       ELSE IF session.rubrique # None /\ session.rubrique # "general"
                            THEN session.rubrique ELSE None,
      productRef   |-> IF variant.filters.productCode # None
                       THEN variant.filters.productCode
                       ELSE session.productCode ]

\* a filter object holds a field or not: an absent field is None (0 for
\* limit), and normalizeFilters keeps the truthy fields only
normalizeFilters(filters) ==
    [ languageCode |-> IF filters.languageCode # None THEN filters.languageCode ELSE None,
      rubrique     |-> IF filters.rubrique # None THEN filters.rubrique ELSE None,
      productRef   |-> IF filters.productRef # None THEN filters.productRef ELSE None,
      limit        |-> IF filters.limit # 0 THEN filters.limit ELSE 0 ]

PushFilterVariant_NoKeyCheck(variants, variant) == Append(variants, variant)

\* pushVariant of buildFallbackFilterVariants: JSON.stringify of two filter
\* objects is equal exactly when they hold the same fields with the same values
PushFilterVariant(variants, variant) ==
    IF Includes(variants, variant) THEN variants ELSE Append(variants, variant)

buildFallbackFilterVariants(filters) ==
    LET normalized == normalizeFilters(filters)
        v1 == PushFilterVariant(<< >>, normalized)
        v2 == IF normalized.productRef # None
              THEN PushFilterVariant(v1, [normalized EXCEPT !.productRef = None])
              ELSE v1
        v3 == IF normalized.rubrique # None
              THEN PushFilterVariant(v2, [normalized EXCEPT !.rubrique = None])
              ELSE v2
        v4 == PushFilterVariant(v3, [normalized EXCEPT !.productRef = None,
                                                       !.rubrique = None])
        v5 == PushFilterVariant(v4, [languageCode |-> normalized.languageCode,
                                     limit |-> normalized.limit,
                                     rubrique |-> None, productRef |-> None])
    IN  PushFilterVariant(v5, [languageCode |-> None, limit |-> normalized.limit,
                               rubrique |-> None, productRef |-> None])

\* the filter objects searchFallback passes to searchFaqContent
FallbackFilters(filters, cfg) ==
    LET variants == buildFallbackFilterVariants(filters)
        limitOverride == Min(IF filters.limit = 0 THEN cfg.maxCandidatesPerVariant
                             ELSE filters.limit, cfg.fallbackLimit)
    IN  [ i \in 1..Len(variants) |-> [variants[i] EXCEPT !.limit = limitOverride] ]

(***************************************************************************)
(* RagSearchService: scoring, aggregation and ranking                      *)
(***************************************************************************)
\* a numeric row field that is absent (undefined)
Absent == -100

\* this.config.recencyBoostDays, as clock ticks
RecencyWindow == 2

\* a || b || c on numbers: undefined and 0 are falsy
BaseScore(result) ==
    IF result.enhanced_relevance # Absent /\ result.enhanced_relevance # 0
    THEN result.enhanced_relevance
    ELSE IF result.relevance # Absent /\ result.relevance # 0
         THEN result.relevance
         ELSE 20

\* 0.1 + ((updatedAt - recentCutoff) / (now - recentCutoff + 1)) * 0.1, in
\* ten-thousandths, the quotient rounded down
RecencyBoost(result, t) ==
    LET recentCutoff == t - RecencyWindow
    IN  IF result.last_updated # Absent /\ result.last_updated >= recentCutoff
        THEN 1000 + (((result.last_updated - recentCutoff) * 1000) \div (t - recentCutoff + 1))
        ELSE 0

ScoreOne(result, variant, session, cfg, t) ==
    [ faqId         |-> result.id,
      row           |-> result,
      variantReason |-> variant.reason,
      variantWeight |-> variant.weight,
      score         |-> (BaseScore(result) * variant.weight)
                        + (IF session.productCode # None
                              /\ result.product_ref = session.productCode
                           THEN cfg.productBoost ELSE 0)
                        + (IF session.rubrique # None
                              /\ result.rubrique = session.rubrique
                           THEN cfg.rubriqueBoost ELSE 0)
                        + RecencyBoost(result, t) ]

scoreResults(results, variant, session, cfg, t) ==
    [ i \in 1..Len(results) |-> ScoreOne(results[i], variant, session, cfg, t) ]

MergeCandidate_KeepsFirst(existing, candidate) ==
    [ existing EXCEPT !.sources = Append(existing.sources, candidate.variantReason) ]

\* the entry of the aggregation Map for a FAQ id seen again
MergeCandidate(existing, candidate) ==
    [ existing EXCEPT !.score = Max(existing.score, candidate.score),
                      !.sources = Append(existing.sources, candidate.variantReason) ]

RECURSIVE AggregateFrom(_, _)
\* aggregated is the Map in insertion order, its entries keyed by faqId
AggregateFrom(aggregated, candidates) ==
    IF candidates = << >> THEN aggregated
    ELSE LET candidate == Head(candidates)
             found == { i \in 1..Len(aggregated) : aggregated[i].faqId = candidate.faqId }
         IN  IF found # {}
             THEN LET i == CHOOSE j \in found : TRUE
                  IN  AggregateFrom(
                          [aggregated EXCEPT ![i] = MergeCandidate(aggregated[i], candidate)],
                          Tail(candidates))
             ELSE AggregateFrom(
                      Append(aggregated,
                             [ faqId   |-> candidate.faqId,
                               row     |-> candidate.row,
                               score   |-> candidate.score,
                               sources |-> <<candidate.variantReason>> ]),
                      Tail(candidates))

aggregateCandidates(candidates) == AggregateFrom(<< >>, candidates)

InsertByScore_BeforeTies(sorted, e) ==
    LET before == { i \in 1..Len(sorted) : sorted[i].score > e.score }
        k == IF before = {} THEN 0
             ELSE CHOOSE i \in before : \A j \in before : j <= i
    IN  SubSeq(sorted, 1, k) \o <<e>> \o SubSeq(sorted, k + 1, Len(sorted))

\* Array.prototype.sort with (a, b) => b.score - a.score is stable: an entry
\* goes after every entry already placed whose score is at least its own
InsertByScore(sorted, e) ==
    LET before == { i \in 1..Len(sorted) : sorted[i].score >= e.score }
        k == IF before = {} THEN 0
             ELSE CHOOSE i \in before : \A j \in before : j <= i
    IN  SubSeq(sorted, 1, k) \o <<e>> \o SubSeq(sorted, k + 1, Len(sorted))

RECURSIVE SortByScore(_, _)
SortByScore(sorted, rest) ==
    IF rest = << >> THEN sorted
    ELSE SortByScore(InsertByScore(sorted, Head(rest)), Tail(rest))

Ranked(aggregated) ==
    LET sorted == SortByScore(<< >>, aggregated)
    IN  [ i \in 1..Len(sorted) |->
            [ faqId |-> sorted[i].faqId, row |-> sorted[i].row,
              score |-> sorted[i].score, sources |-> sorted[i].sources,
              rank |-> i ] ]

RetrieveResult_HardFloor(candidates, cfg) ==
    IF Len(candidates) = 0 THEN [kind |-> "null"]
    ELSE LET ranked == Ranked(aggregateCandidates(candidates))
             topK == SubSeq(ranked, 1, Min(cfg.topKResults, Len(ranked)))
             aboveThreshold == SelectSeq(topK, LAMBDA c : c.score >= cfg.minScore)
         IN  IF Len(aboveThreshold) = 0 THEN [kind |-> "null"]
             ELSE [ kind |-> "result",
                    rankedCandidates |-> ranked,
                    topCandidates |-> aboveThreshold ]

RetrieveResult_NoSlice(candidates, cfg) ==
    IF Len(candidates) = 0 THEN [kind |-> "null"]
    ELSE LET ranked == Ranked(aggregateCandidates(candidates))
             aboveThreshold == SelectSeq(ranked, LAMBDA c : c.score >= cfg.minScore)
         IN  [ kind |-> "result",
               rankedCandidates |-> ranked,
               topCandidates |-> IF Len(aboveThreshold) > 0 THEN aboveThreshold ELSE ranked ]

\* the value retrieve returns once every variant is processed
RetrieveResult(candidates, cfg) ==
    IF Len(candidates) = 0 THEN [kind |-> "null"]
    ELSE LET ranked == Ranked(aggregateCandidates(candidates))
             topK == SubSeq(ranked, 1, Min(cfg.topKResults, Len(ranked)))
             aboveThreshold == SelectSeq(topK, LAMBDA c : c.score >= cfg.minScore)
         IN  [ kind |-> "result",
               rankedCandidates |-> ranked,
               topCandidates |-> IF Len(aboveThreshold) > 0 THEN aboveThreshold ELSE topK ]

(***************************************************************************)
(* Inputs of the model                                                     *)
(***************************************************************************)
Queries == { <<"aide">>, <<"prix">>, <<"prix", "support">> }

Sessions ==
    { [languageCode |-> "fr", rubrique |-> None,      productCode |-> None],
      [languageCode |-> "fr", rubrique |-> "general", productCode |-> None],
      [languageCode |-> "fr", rubrique |-> "product", productCode |-> "P1"],
      [languageCode |-> "fr", rubrique |-> "sales_funnel", productCode |-> None],
      [languageCode |-> None, rubrique |-> None,      productCode |-> "P1"] }

\* the keys the clients of the cache use: the cache keys of query variants
Keys ==
    { buildCacheKey(q, [languageCode |-> "fr", rubrique |-> None, productCode |-> None]) :
        q \in Queries }

(***************************************************************************)
(* The cache driven directly by its clients, the periodic sweep and the    *)
(* clock                                                                   *)
(***************************************************************************)
\* the key argument of a call that takes none
NoKey == [query |-> << >>, filters |-> {}]

NoOp == [op |-> "none", key |-> NoKey, branch |-> None, ret |-> UndefRet]

InitCache ==
    /\ cache = << >>
    /\ accessOrder = << >>
    /\ now = 0
    /\ lastOp = NoOp
    /\ vq = << >>
    /\ rag = << >>
    /\ cacheDown = FALSE
    /\ fb = << >>
    /\ st = << >>
    /\ qa = << >>
    /\ sched = << >>
    /\ reqs = << >>
    /\ chat = << >>

\* which path of get / has the call takes
Branch(c, key, t) ==
    IF ~MapHas(c, key) THEN "miss"
    ELSE IF t > MapGet(c, key).expires THEN "expired" ELSE "hit"

Apply(r, op, key, branch) ==
    /\ cache' = r.cache
    /\ accessOrder' = r.accessOrder
    /\ lastOp' = [op |-> op, key |-> key, branch |-> branch, ret |-> r.ret]
    /\ UNCHANGED <<now, vq, rag, cacheDown, ext>>

Get(key) == Apply(CacheGet(cache, accessOrder, key, now), "get", key,
                  Branch(cache, key, now))

Set(key, value, customTtl) ==
    Apply(CacheSet(cache, accessOrder, key, value, customTtl, now), "set", key,
          IF MapHas(cache, key) THEN "update" ELSE "insert")

Delete(key) == Apply(CacheDelete(cache, accessOrder, key), "delete", key, None)

Has(key) == Apply(CacheHas(cache, accessOrder, key, now), "has", key,
                  Branch(cache, key, now))

Clear == Apply(CacheClear(cache, accessOrder), "clear", NoKey, None)

\* the setInterval callback of the constructor
\* (the branch tells whether it logged "removed N expired entries")
Cleanup == Apply(CacheCleanup(cache, accessOrder, now), "cleanup", NoKey,
                 IF \E i \in 1..Len(cache) : now > cache[i].expires
                 THEN "removed" ELSE None)

\* Date.now() never decreases
Tick ==
    /\ now < MaxTime
    /\ now' = now + 1
    /\ lastOp' = [op |-> "tick", key |-> NoKey, branch |-> None, ret |-> UndefRet]
    /\ UNCHANGED <<cache, accessOrder, vq, rag, cacheDown, ext>>

CacheValues == { <<1>> }

NextCache ==
    \/ \E k \in Keys : Get(k)
    \/ \E k \in Keys, v \in CacheValues, customTtl \in {0, 1} : Set(k, v, customTtl)
    \/ \E k \in Keys : Delete(k)
    \/ \E k \in Keys : Has(k)
    \/ Clear
    \/ Cleanup
    \/ Tick

SpecCache == InitCache /\ [][NextCache]_vars

\* the last-access time of a stored key
AccessTime(key) == MapGet(accessOrder, key).time

\* C1: a set of a key that is not stored, made while the cache holds
\* maxEntries entries, removes exactly one entry, one whose last-access time
\* is the smallest, and stores the key.
C1_SetEvictsOldest ==
    [][ ( /\ lastOp'.op = "set"
          /\ lastOp'.branch = "insert"
          /\ Len(cache) = maxEntries )
        => \E victim \in MapKeys(cache) :
              /\ \A k \in MapKeys(cache) : AccessTime(victim) <= AccessTime(k)
              /\ MapKeys(cache') = (MapKeys(cache) \ {victim}) \cup {lastOp'.key} ]_vars

\* C2: the cache never stores more than maxEntries entries.
C2_Bounded == Len(cache) <= maxEntries

\* C3: a get of a stored entry with now > expires returns null and removes
\* the key from both maps; has of a key that is not stored returns false; and
\* a key that is not stored becomes stored only by a set of that key.
C3_ExpiredGetRemoves ==
    [][ /\ ( /\ lastOp'.op = "get"
             /\ MapHas(cache, lastOp'.key)
             /\ now > MapGet(cache, lastOp'.key).expires )
           => /\ lastOp'.ret = NullRet
              /\ ~MapHas(cache', lastOp'.key)
              /\ ~MapHas(accessOrder', lastOp'.key)
        /\ (lastOp'.op = "has" /\ ~MapHas(cache, lastOp'.key))
           => lastOp'.ret = BoolRet(FALSE)
        /\ \A k \in Keys :
              (~MapHas(cache, k) /\ MapHas(cache', k))
                 => (lastOp'.op = "set" /\ lastOp'.key = k) ]_vars

C3_Witness ==
    /\ lastOp.op = "get"
    /\ lastOp.branch = "expired"
    /\ lastOp.ret = NullRet
    /\ ~MapHas(cache, lastOp.key)
    /\ Len(cache) > 0

\* whether entry e of the entry map is expired at time t
Expired(e, t) == t > e.expires

\* C22: once now > expires an entry is never returned by get nor reported by
\* has; the periodic cleanup removes every entry with now > expires and only
\* those, and leaves every other entry and its last-access time unchanged.
C22_ExpiredAbsentAndSwept ==
    [][ /\ (lastOp'.op = "get" /\ lastOp'.ret.kind = "value")
           => /\ MapHas(cache, lastOp'.key)
              /\ ~Expired(MapGet(cache, lastOp'.key), now)
        /\ (lastOp'.op = "has" /\ lastOp'.ret = BoolRet(TRUE))
           => /\ MapHas(cache, lastOp'.key)
              /\ ~Expired(MapGet(cache, lastOp'.key), now)
        /\ (lastOp'.op = "cleanup")
           => /\ cache' = SelectSeq(cache, LAMBDA e : ~Expired(e, now))
              /\ accessOrder' =
                    SelectSeq(accessOrder,
                              LAMBDA a : ~( /\ MapHas(cache, a.key)
                                            /\ Expired(MapGet(cache, a.key), now) ))
              /\ \A i \in 1..Len(cache') : ~Expired(cache'[i], now') ]_vars

\* Witness of C22: a cleanup removed an expired entry and kept an entry that
\* expires at this very instant.
C22_Witness ==
    /\ lastOp.op = "cleanup"
    /\ lastOp.branch = "removed"
    /\ Len(cache) = 1
    /\ cache[1].expires = now
    /\ MapHas(accessOrder, cache[1].key)

(***************************************************************************)
(* buildQueryVariants as a function of the query, the session and the      *)
(* configuration                                                           *)
(***************************************************************************)
VariantConfigs ==
    { RagConfig([maxQueryVariants |-> m, topKResults |-> 0, minScore |-> 3500,
                 cacheTtl |-> 0, variantDecay |-> d]) :
        m \in {0, 1, 2, 3, 6}, d \in {0, 5, 15, 35, 70, 80, 100} }

InitVariants ==
    /\ cache = << >>
    /\ accessOrder = << >>
    /\ now = 0
    /\ lastOp = NoOp
    /\ rag = << >>
    /\ cacheDown = FALSE
    /\ fb = << >>
    /\ st = << >>
    /\ qa = << >>
    /\ sched = << >>
    /\ reqs = << >>
    /\ chat = << >>
    /\ vq \in { [query |-> q, session |-> s, cfg |-> c, done |-> FALSE, out |-> << >>] :
                  q \in Queries, s \in Sessions, c \in VariantConfigs }

BuildVariants ==
    /\ ~vq.done
    /\ vq' = [vq EXCEPT !.done = TRUE,
                        !.out = buildQueryVariants(vq.query, vq.session, vq.cfg)]
    /\ UNCHANGED <<cache, accessOrder, now, lastOp, rag, cacheDown, ext>>

NextVariants == BuildVariants

SpecVariants == InitVariants /\ [][NextVariants]_vars

\* C9: at most maxQueryVariants variants, weights non-increasing in
\* generation order, the first variant has weight 1.0 and reason "base".
C9_WeightsNonIncreasing ==
    vq.done =>
        /\ Len(vq.out) <= vq.cfg.maxQueryVariants
        /\ \A i \in 1..(Len(vq.out) - 1) : vq.out[i].weight >= vq.out[i + 1].weight
        /\ Len(vq.out) >= 1
        /\ vq.out[1].weight = 100
        /\ vq.out[1].reason = "base"

\* C10 as stated: the weight strictly decreases from each variant to the
\* next, and the base variant has weight 1.0 and allowFallback = true.
C10_StrictlyDecreasing ==
    vq.done =>
        /\ \A i \in 1..(Len(vq.out) - 1) : vq.out[i].weight > vq.out[i + 1].weight
        /\ Len(vq.out) >= 1
        /\ vq.out[1].weight = 100
        /\ vq.out[1].allowFallback

\* C10 as amended: the base variant comes first with weight 1.0 and
\* allowFallback = true, and every later variant weighs strictly less than
\* the base variant (two later variants may weigh the same).
C10_BelowBase ==
    vq.done =>
        /\ Len(vq.out) >= 1
        /\ vq.out[1].weight = 100
        /\ vq.out[1].reason = "base"
        /\ vq.out[1].allowFallback
        /\ \A i \in 2..Len(vq.out) :
              /\ vq.out[i].weight < vq.out[1].weight
              /\ vq.out[i].reason # "base"

C10_Witness ==
    /\ vq.done
    /\ Len(vq.out) >= 4
    /\ vq.out[2].reason = "product"
    /\ vq.out[3].reason = "rubrique"
    /\ vq.out[2].weight = vq.out[3].weight
    /\ vq.out[4].reason = "synonym"

(***************************************************************************)
(* RagSearchService.retrieve as a process.  It is suspended exactly while  *)
(* a store call (searchFaqs, searchFaqContent) is in flight; the code      *)
(* between two store calls runs in one step.                               *)
(***************************************************************************)
\* the configuration of the service under test
RagCfg ==
    RagConfig([maxQueryVariants |-> 3, topKResults |-> 2, minScore |-> 3500,
               cacheTtl |-> 1, variantDecay |-> 0])

\* the rows of the FAQ store
FaqRow(id, er, rel, product, rubrique, updated) ==
    [ id |-> id, enhanced_relevance |-> er, relevance |-> rel,
      product_ref |-> product, rubrique |-> rubrique, last_updated |-> updated ]

\* FAQ 1 was last updated one tick before the clock of the model starts
Faq1 == FaqRow(1, 60, 10, "P1", "product", -1)

Faq2 == FaqRow(2, Absent, 30, None, "general", Absent)

\* FAQ 2 as another query scores it
Faq2b == FaqRow(2, 70, 30, None, "general", Absent)

\* a FAQ the store has no relevance for
Faq3 == FaqRow(3, 0, 0, None, "product", Absent)

\* what a store call answers: rows, or an exception
Rows(rows) == [kind |-> "rows", rows |-> rows]

Throw == [kind |-> "throw"]

StoreOutcomes ==
    { Rows(<< >>), Rows(<<Faq2>>), Rows(<<Faq2b, Faq1, Faq3>>), Throw }

\* the normalized queries and sessions retrieve is called with
RagInputs ==
    { [query |-> <<"prix">>,
       session |-> [languageCode |-> "fr", rubrique |-> None, productCode |-> None]],
      [query |-> <<"aide">>,
       session |-> [languageCode |-> "fr", rubrique |-> "product", productCode |-> None]] }

\* lastCall is the latest cache lookup that hit or store call that answered,
\* served whether any of them so far in this retrieve held rows
NoCall ==
    [ vi |-> 0, fn |-> "none", step |-> 0,
      filters |-> [languageCode |-> None, limit |-> 0, rubrique |-> None,
                   productRef |-> None],
      out |-> [kind |-> "none"] ]

IdleRag(runs) ==
    [ pc |-> "idle", runs |-> runs, query |-> << >>,
      session |-> [languageCode |-> None, rubrique |-> None, productCode |-> None],
      variants |-> << >>, vi |-> 0, fbs |-> << >>, fi |-> 0,
      candidates |-> << >>, lastCall |-> NoCall, served |-> FALSE,
      outcome |-> [kind |-> "none"] ]

NonEmpty(results) == results.kind = "rows" /\ Len(results.rows) > 0

\* the process after a lookup that hit, or after a store call answered
Called(r, fn, step, filters, out) ==
    [ r EXCEPT !.lastCall = [vi |-> r.vi, fn |-> fn, step |-> step,
                             filters |-> filters, out |-> out],
               !.served = r.served \/ NonEmpty(out) ]

RECURSIVE RunLoop(_, _, _)
RECURSIVE AfterResults(_, _, _, _)

\* the exception of a failing cache.get leaves getCachedResults and retrieve
AfterCacheGetThrows(r, c, ao) ==
    [ rag |-> [r EXCEPT !.pc = "done",
                        !.outcome = [kind |-> "threw", error |-> "cache.get"]],
      cache |-> c, accessOrder |-> ao ]

\* retrieve starting the fallback chain after every empty result, whatever the
\* variant allows
AfterPrimary_AlwaysFallback(r, results, c, ao) ==
    IF results.kind = "rethrow"
    THEN [ rag |-> [r EXCEPT !.pc = "done",
                             !.outcome = [kind |-> "threw", error |-> "searchFaqs"]],
           cache |-> c, accessOrder |-> ao ]
    ELSE IF ~NonEmpty(results)
    THEN [ rag |-> [r EXCEPT !.pc = "fallback",
                             !.fbs = FallbackFilters(
                                        buildFilters(r.session, r.variants[r.vi], RagCfg),
                                        RagCfg),
                             !.fi = 1],
           cache |-> c, accessOrder |-> ao ]
    ELSE AfterResults(r, results, c, ao)

\* retrieve, lines 1166-1168: an empty result of a variant that allows it
\* starts the fallback chain, whose first store call suspends the process
AfterPrimary(r, results, c, ao) ==
    IF results.kind = "rethrow"
    THEN [ rag |-> [r EXCEPT !.pc = "done",
                             !.outcome = [kind |-> "threw", error |-> "searchFaqs"]],
           cache |-> c, accessOrder |-> ao ]
    ELSE IF ~NonEmpty(results) /\ r.variants[r.vi].allowFallback
    THEN [ rag |-> [r EXCEPT !.pc = "fallback",
                             !.fbs = FallbackFilters(
                                        buildFilters(r.session, r.variants[r.vi], RagCfg),
                                        RagCfg),
                             !.fi = 1],
           cache |-> c, accessOrder |-> ao ]
    ELSE AfterResults(r, results, c, ao)

\* retrieve, lines 1170-1174: score and accumulate, then the next variant
AfterResults(r, results, c, ao) ==
    LET scored == IF NonEmpty(results)
                  THEN scoreResults(results.rows, r.variants[r.vi], r.session, RagCfg, now)
                  ELSE << >>
    IN  RunLoop([r EXCEPT !.candidates = r.candidates \o scored,
                          !.vi = r.vi + 1, !.fbs = << >>, !.fi = 0], c, ao)

\* the head of the loop of retrieve and getCachedResults up to its store call
RunLoop(r, c, ao) ==
    IF r.vi > Len(r.variants)
    THEN [ rag |-> [r EXCEPT !.pc = "done",
                             !.outcome = RetrieveResult(r.candidates, RagCfg)],
           cache |-> c, accessOrder |-> ao ]
    ELSE IF cacheDown THEN AfterCacheGetThrows(r, c, ao)
    ELSE LET variant == r.variants[r.vi]
             filters == buildFilters(r.session, variant, RagCfg)
             got == CacheGet(c, ao, variant.cacheKey, now)
         IN  IF got.ret.kind = "value"
             THEN AfterPrimary(
                      Called(r, "cache", 0, filters, Rows(got.ret.value)),
                      Rows(got.ret.value), got.cache, got.accessOrder)
             ELSE [ rag |-> [r EXCEPT !.pc = "primary"],
                    cache |-> got.cache, accessOrder |-> got.accessOrder ]

PrimaryResults_NoCatch(r, answer, c, ao) ==
    IF answer.kind = "throw"
    THEN [results |-> [kind |-> "rethrow"], cache |-> c, accessOrder |-> ao]
    ELSE LET put == CacheSet(c, ao, r.variants[r.vi].cacheKey, answer.rows,
                             RagCfg.cacheTtl, now)
         IN  [results |-> answer, cache |-> put.cache, accessOrder |-> put.accessOrder]

PrimaryResults_NoCacheSet(r, answer, c, ao) ==
    IF answer.kind = "throw"
    THEN [results |-> [kind |-> "null"], cache |-> c, accessOrder |-> ao]
    ELSE [results |-> answer, cache |-> c, accessOrder |-> ao]

\* getCachedResults, lines 1289-1302, once searchFaqs has answered
PrimaryResults(r, answer, c, ao) ==
    IF answer.kind = "throw"
    THEN [results |-> [kind |-> "null"], cache |-> c, accessOrder |-> ao]
    ELSE IF cacheDown
         THEN [results |-> [kind |-> "null"], cache |-> c, accessOrder |-> ao]
         ELSE LET put == CacheSet(c, ao, r.variants[r.vi].cacheKey, answer.rows,
                                  RagCfg.cacheTtl, now)
              IN  [results |-> answer, cache |-> put.cache,
                   accessOrder |-> put.accessOrder]

InitRag ==
    /\ cache = << >>
    /\ accessOrder = << >>
    /\ now = 0
    /\ lastOp = NoOp
    /\ vq = << >>
    /\ rag = IdleRag(0)
    /\ cacheDown = FALSE
    /\ fb = << >>
    /\ st = << >>
    /\ qa = << >>
    /\ sched = << >>
    /\ reqs = << >>
    /\ chat = << >>

Step(next) ==
    /\ rag' = next.rag
    /\ cache' = next.cache
    /\ accessOrder' = next.accessOrder
    /\ UNCHANGED <<now, lastOp, vq, cacheDown, ext>>

\* a client calls retrieve(query, session)
Retrieve(input) ==
    /\ rag.pc = "idle"
    /\ rag.runs < MaxRetrieves
    /\ Step(RunLoop([IdleRag(rag.runs + 1) EXCEPT
                        !.query = input.query,
                        !.session = input.session,
                        !.variants = buildQueryVariants(input.query, input.session, RagCfg),
                        !.vi = 1],
                    cache, accessOrder))

\* database.searchFaqs answers
PrimaryReturn(answer) ==
    /\ rag.pc = "primary"
    /\ LET filters == buildFilters(rag.session, rag.variants[rag.vi], RagCfg)
           r == Called(rag, "searchFaqs", 0, filters, answer)
           p == PrimaryResults(r, answer, cache, accessOrder)
       IN  Step(AfterPrimary(r, p.results, p.cache, p.accessOrder))

\* database.searchFaqContent answers step fi of the fallback chain
FallbackReturn(answer) ==
    /\ rag.pc = "fallback"
    /\ LET r == Called(rag, "searchFaqContent", rag.fi, rag.fbs[rag.fi], answer)
       IN  IF NonEmpty(answer)
           THEN Step(AfterResults(r, answer, cache, accessOrder))
           ELSE IF rag.fi < Len(rag.fbs)
                THEN Step([rag |-> [r EXCEPT !.fi = rag.fi + 1],
                           cache |-> cache, accessOrder |-> accessOrder])
                ELSE Step(AfterResults(r, [kind |-> "null"], cache, accessOrder))

\* the caller takes the value or the exception of retrieve
Return ==
    /\ rag.pc = "done"
    /\ rag' = IdleRag(rag.runs)
    /\ UNCHANGED <<cache, accessOrder, now, lastOp, vq, cacheDown, ext>>

\* the setInterval callback of the cache
Sweep ==
    /\ LET swept == CacheCleanup(cache, accessOrder, now)
       IN  /\ cache' = swept.cache
           /\ accessOrder' = swept.accessOrder
    /\ UNCHANGED <<now, lastOp, vq, rag, cacheDown, ext>>

Advance ==
    /\ now < RagMaxTime
    /\ now' = now + 1
    /\ UNCHANGED <<cache, accessOrder, lastOp, vq, rag, cacheDown, ext>>

NextRag ==
    \/ \E input \in RagInputs : Retrieve(input)
    \/ \E answer \in StoreOutcomes : PrimaryReturn(answer)
    \/ \E answer \in StoreOutcomes : FallbackReturn(answer)
    \/ Return
    \/ Sweep
    \/ Advance

SpecRag == InitRag /\ [][NextRag]_vars

\* the injected cache starts or stops throwing on every get and set
CacheToggle ==
    /\ cacheDown' = ~cacheDown
    /\ UNCHANGED <<cache, accessOrder, now, lastOp, vq, rag, ext>>

NextRagFault == NextRag \/ CacheToggle

SpecRagFault == InitRag /\ [][NextRagFault]_vars

(***************************************************************************)
(* Properties of retrieve                                                  *)
(***************************************************************************)
\* the FAQ ids of a list of rows
RowIds(rows) == { rows[i].id : i \in 1..Len(rows) }

\* C4: a failing cache get or set does not block the search: retrieve does
\* not throw, and the rows searchFaqs returned for the variant are scored
\* into the candidates.
C4_CacheFailureTolerated ==
    /\ rag.outcome.kind # "threw"
    /\ (rag.lastCall.fn = "searchFaqs" /\ NonEmpty(rag.lastCall.out))
          => \A id \in RowIds(rag.lastCall.out.rows) :
                \E i \in 1..Len(rag.candidates) :
                    /\ rag.candidates[i].faqId = id
                    /\ rag.candidates[i].variantReason
                          = rag.variants[rag.lastCall.vi].reason

\* the step in which the store call of the current variant throws
StoreThrows(fn, step) ==
    /\ rag.pc = (IF fn = "searchFaqs" THEN "primary" ELSE "fallback")
    /\ rag'.lastCall.vi = rag.vi
    /\ rag'.lastCall.fn = fn
    /\ rag'.lastCall.step = step
    /\ rag'.lastCall.out = Throw

\* retrieve went on with a later variant, or finished without an exception
MovedOn ==
    \/ rag'.pc \in {"primary", "fallback"} /\ rag'.vi > rag.vi
    \/ rag'.pc = "done" /\ rag'.outcome.kind \in {"null", "result"}

\* C5: retrieve never ends with an exception; a store call that throws
\* adds no candidate and retrieve goes on as after an empty answer: with
\* the fallback chain after searchFaqs (when the variant allows it), with
\* the next fallback step after searchFaqContent, else with the next
\* variant; and a retrieve that was served no rows returns null.
C5_StoreFailuresContained ==
    [][ /\ rag'.outcome.kind # "threw"
        /\ StoreThrows("searchFaqs", 0)
              => IF rag.variants[rag.vi].allowFallback
                 THEN /\ rag'.pc = "fallback" /\ rag'.vi = rag.vi /\ rag'.fi = 1
                      /\ rag'.candidates = rag.candidates
                 ELSE MovedOn
        /\ StoreThrows("searchFaqContent", rag.fi)
              => IF rag.fi < Len(rag.fbs)
                 THEN /\ rag'.pc = "fallback" /\ rag'.vi = rag.vi
                      /\ rag'.fi = rag.fi + 1
                      /\ rag'.candidates = rag.candidates
                 ELSE MovedOn
        /\ (rag'.pc = "done" /\ ~rag'.served) => rag'.outcome.kind = "null" ]_vars

C5_Witness ==
    /\ rag.pc = "done"
    /\ rag.outcome.kind = "null"
    /\ rag.lastCall.fn = "searchFaqs"
    /\ rag.lastCall.out = Throw
    /\ rag.lastCall.vi = 3

\* C6: retrieve returns null exactly when no cache hit and no store answer
\* of the call held a row.
C6_NullIffNoRows ==
    rag.pc = "done" => (rag.outcome.kind = "null" <=> ~rag.served)

C6_Witness ==
    /\ rag.pc = "done"
    /\ rag.outcome.kind = "null"
    /\ rag.lastCall.vi = Len(rag.variants)
    /\ rag.lastCall.out = Rows(<< >>)

\* the candidates scored for a FAQ id, over all variants
Contributions(id) ==
    { i \in 1..Len(rag.candidates) : rag.candidates[i].faqId = id }

\* C7: rankedCandidates holds every FAQ id of the scored rows exactly once;
\* its score is the maximum of the scores computed for it, its sources hold
\* the reason of every contributing variant, and an id with one
\* contribution has exactly that score and that reason.
C7_MergedOnceWithMaxScore ==
    (rag.pc = "done" /\ rag.outcome.kind = "result") =>
        LET ranked == rag.outcome.rankedCandidates
        IN  /\ { ranked[i].faqId : i \in 1..Len(ranked) }
                  = { rag.candidates[j].faqId : j \in 1..Len(rag.candidates) }
            /\ \A i, j \in 1..Len(ranked) : ranked[i].faqId = ranked[j].faqId => i = j
            /\ NonEmpty(rag.lastCall.out)
                  => \A id \in RowIds(rag.lastCall.out.rows) :
                        \E i \in 1..Len(ranked) : ranked[i].faqId = id
            /\ \A i \in 1..Len(ranked) :
                  LET from == Contributions(ranked[i].faqId)
                  IN  /\ \E j \in from : ranked[i].score = rag.candidates[j].score
                      /\ \A j \in from : ranked[i].score >= rag.candidates[j].score
                      /\ \A j \in from :
                            Includes(ranked[i].sources, rag.candidates[j].variantReason)
                      /\ Cardinality(from) = 1
                            => \A j \in from :
                                  ranked[i].sources = <<rag.candidates[j].variantReason>>

C7_Witness ==
    /\ rag.pc = "done"
    /\ rag.outcome.kind = "result"
    /\ \E i, k \in 1..Len(rag.outcome.rankedCandidates) :
          LET e == rag.outcome.rankedCandidates[i]
              o == rag.outcome.rankedCandidates[k]
          IN  /\ Includes(e.sources, "base")
              /\ Includes(e.sources, "synonym")
              /\ \E j \in Contributions(e.faqId) : rag.candidates[j].score < e.score
              /\ o.sources = <<"synonym">>

\* C8: no reason occurs twice in the sources of a ranked candidate.
C8_SourcesAreASet ==
    (rag.pc = "done" /\ rag.outcome.kind = "result") =>
        \A i \in 1..Len(rag.outcome.rankedCandidates) :
            LET sources == rag.outcome.rankedCandidates[i].sources
            IN  \A a, b \in 1..Len(sources) : sources[a] = sources[b] => a = b

(***************************************************************************)
(* RagSearchService.searchFallback as a process of its own, called with    *)
(* the filters retrieve builds for the variants that allow the fallback.   *)
(* It is suspended while searchFaqContent is in flight.                    *)
(***************************************************************************)
\* buildFilters of the base variant of every query and session
FallbackInputs ==
    { buildFilters(s, buildQueryVariants(q, s, RagCfg)[1], RagCfg) :
        q \in Queries, s \in Sessions }

IdleFallback ==
    [ pc |-> "idle", filters |-> NoCall.filters, chain |-> << >>, fi |-> 0,
      log |-> << >>, result |-> [kind |-> "none"] ]

InitFallback ==
    /\ cache = << >>
    /\ accessOrder = << >>
    /\ now = 0
    /\ lastOp = NoOp
    /\ vq = << >>
    /\ rag = << >>
    /\ cacheDown = FALSE
    /\ fb = IdleFallback
    /\ st = << >>
    /\ qa = << >>
    /\ sched = << >>
    /\ reqs = << >>
    /\ chat = << >>

\* searchFallback(query, filters) up to its first store call
SearchFallback(filters) ==
    /\ fb.pc = "idle"
    /\ fb' = [IdleFallback EXCEPT !.pc = "call", !.filters = filters,
                                  !.chain = FallbackFilters(filters, RagCfg),
                                  !.fi = 1]
    /\ UNCHANGED <<core, st, qa, sched, reqs, chat>>

\* database.searchFaqContent answers step fi: rows end the loop, an empty
\* answer or an exception goes to the next filter set, null after the last
SearchFaqContentReturn(answer) ==
    /\ fb.pc = "call"
    /\ LET logged == Append(fb.log, [filters |-> fb.chain[fb.fi], out |-> answer])
       IN  fb' = IF NonEmpty(answer)
                 THEN [fb EXCEPT !.pc = "done", !.log = logged,
                                 !.result = Rows(answer.rows)]
                 ELSE IF fb.fi < Len(fb.chain)
                      THEN [fb EXCEPT !.fi = fb.fi + 1, !.log = logged]
                      ELSE [fb EXCEPT !.pc = "done", !.log = logged,
                                      !.result = [kind |-> "null"]]
    /\ UNCHANGED <<core, st, qa, sched, reqs, chat>>

\* the caller takes the value of searchFallback
FallbackDone ==
    /\ fb.pc = "done"
    /\ fb' = IdleFallback
    /\ UNCHANGED <<core, st, qa, sched, reqs, chat>>

NextFallback ==
    \/ \E filters \in FallbackInputs : SearchFallback(filters)
    \/ \E answer \in StoreOutcomes : SearchFaqContentReturn(answer)
    \/ FallbackDone

SpecFallback == InitFallback /\ [][NextFallback]_vars

\* the six relaxations of a filter set, in the order of the chain
SixSteps(f) ==
    << f,
       [f EXCEPT !.productRef = None],
       [f EXCEPT !.rubrique = None],
       [f EXCEPT !.productRef = None, !.rubrique = None],
       [languageCode |-> f.languageCode, limit |-> f.limit,
        rubrique |-> None, productRef |-> None],
       [languageCode |-> None, limit |-> f.limit,
        rubrique |-> None, productRef |-> None] >>

RECURSIVE WithoutRepeats(_, _)
\* a list with every repetition of an earlier element left out
WithoutRepeats(kept, rest) ==
    IF rest = << >> THEN kept
    ELSE WithoutRepeats(IF Includes(kept, Head(rest)) THEN kept
                        ELSE Append(kept, Head(rest)), Tail(rest))

\* C11: the fallback chain queries the store with the filter sets (all),
\* (without product), (without category), (without both), (language and
\* limit), (limit only) in this order, each distinct set once; it goes on
\* exactly while the answers are empty or exceptions, returns the rows of
\* the first non-empty answer, and returns null only after every set of the
\* chain was tried.
C11_FallbackOrder ==
    fb.pc # "idle" =>
        LET expected == WithoutRepeats(<< >>,
                            SixSteps([fb.filters EXCEPT
                                         !.limit = Min(fb.filters.limit,
                                                       RagCfg.fallbackLimit)]))
            n == Len(fb.log)
        IN  /\ n <= Len(expected)
            /\ \A i \in 1..n : fb.log[i].filters = expected[i]
            /\ \A i, j \in 1..n : fb.log[i].filters = fb.log[j].filters => i = j
            /\ \A i \in 1..(n - 1) : ~NonEmpty(fb.log[i].out)
            /\ fb.pc = "call" => \A i \in 1..n : ~NonEmpty(fb.log[i].out)
            /\ fb.pc = "done" =>
                  /\ n >= 1
                  /\ IF NonEmpty(fb.log[n].out)
                     THEN fb.result = Rows(fb.log[n].out.rows)
                     ELSE n = Len(expected) /\ fb.result = [kind |-> "null"]

\* the chain of a session with product and category stops at its fifth and
\* last set, after empty answers and an exception
C11_Witness ==
    /\ fb.pc = "done"
    /\ fb.filters.productRef # None
    /\ fb.filters.rubrique # None
    /\ Len(fb.log) = 5
    /\ fb.log[5].filters.languageCode = None
    /\ fb.result = Rows(<<Faq2b, Faq1, Faq3>>)
    /\ \E i \in 1..4 : fb.log[i].out = Throw
    /\ \E i \in 1..4 : fb.log[i].out = Rows(<< >>)

(***************************************************************************)
(* Properties of the loop of retrieve                                      *)
(***************************************************************************)
\* the cache holds an entry for the key of variant j that has not expired
LiveEntry(c, j) ==
    /\ MapHas(c, rag'.variants[j].cacheKey)
    /\ now' <= MapGet(c, rag'.variants[j].cacheKey).expires

\* after the answer of searchFaqs the key of the variant holds exactly the
\* rows answered, with the configured TTL; an exception stores nothing
AnswerStored(answer) ==
    IF answer.kind = "rows"
    THEN /\ MapHas(cache', rag.variants[rag.vi].cacheKey)
         /\ MapGet(cache', rag.variants[rag.vi].cacheKey)
               = [ key     |-> rag.variants[rag.vi].cacheKey,
                   value   |-> answer.rows,
                   expires |-> now + RagCfg.cacheTtl,
                   created |-> now ]
    ELSE \A i \in 1..Len(cache') : Includes(cache, cache'[i])

\* the step is the answer of searchFaqs to the call in flight: the answer is
\* the last call recorded, unless a cache hit of a later variant followed it
PrimaryAnswerStored ==
    IF rag'.lastCall.fn = "searchFaqs" /\ rag'.lastCall.vi = rag.vi
    THEN AnswerStored(rag'.lastCall.out)
    ELSE \E answer \in StoreOutcomes : PrimaryReturn(answer) /\ AnswerStored(answer)

\* C12: retrieve takes the variants in generation order and ends only after
\* the last one; a variant is passed without a store call only on a live
\* cache entry for its key, searchFaqs is in flight only for a key the cache
\* does not hold, its rows are stored under that key with the configured
\* TTL, and no other step (the fallback chain included) writes the cache.
C12_CacheFirstThenStore ==
    [][ LET from == IF rag.pc \in {"idle", "done"} THEN 0 ELSE rag.vi
        IN  rag'.pc \in {"primary", "fallback", "done"} =>
              /\ rag'.variants = IF rag.pc \in {"primary", "fallback"}
                                 THEN rag.variants
                                 ELSE buildQueryVariants(rag'.query, rag'.session, RagCfg)
              /\ rag'.vi >= from
              /\ rag'.pc = "done" => rag'.vi = Len(rag'.variants) + 1
              /\ rag'.pc # "done" => rag'.vi \in 1..Len(rag'.variants)
              /\ rag' # rag => \A j \in (from + 1)..(rag'.vi - 1) : LiveEntry(cache', j)
              /\ rag'.pc = "primary"
                    => ~MapHas(cache', rag'.variants[rag'.vi].cacheKey)
              /\ (rag.pc = "primary" /\ rag' # rag) => PrimaryAnswerStored
              /\ rag.pc # "primary"
                    => \A i \in 1..Len(cache') : Includes(cache, cache'[i]) ]_vars

\* searchFaqs is in flight for the third variant after the fallback chain
\* found rows for the second; the cache holds the empty primary answers only
C12_Witness ==
    /\ rag.pc = "primary"
    /\ rag.vi = 3
    /\ rag.lastCall.fn = "searchFaqContent"
    /\ rag.lastCall.vi = 2
    /\ NonEmpty(rag.lastCall.out)
    /\ Len(cache) = 2
    /\ \A i \in 1..Len(cache) : cache[i].value = << >>

(***************************************************************************)
(* Properties of the value retrieve returns                                *)
(***************************************************************************)
\* C13: a non-null result has between 1 and topKResults top candidates:
\* those of the first topKResults ranked candidates whose score is at least
\* minScore, in ranked order, or all of the first topKResults ranked
\* candidates when none of them reaches minScore.
C13_TopCandidates ==
    (rag.pc = "done" /\ rag.outcome.kind = "result") =>
        LET ranked == rag.outcome.rankedCandidates
            top == rag.outcome.topCandidates
            K == Min(RagCfg.topKResults, Len(ranked))
            good == { i \in 1..K : ranked[i].score >= RagCfg.minScore }
            picked == IF good = {} THEN 1..K ELSE good
        IN  /\ Len(top) >= 1
            /\ Len(top) <= RagCfg.topKResults
            /\ Len(top) = Cardinality(picked)
            /\ \A i \in 1..Len(top) :
                  /\ top[i].rank \in picked
                  /\ top[i] = ranked[top[i].rank]
            /\ \A i, j \in 1..Len(top) : i < j => top[i].rank < top[j].rank

\* three FAQs are ranked and the third, although at the floor, is cut off
C13_Witness ==
    /\ rag.pc = "done"
    /\ rag.outcome.kind = "result"
    /\ Len(rag.outcome.rankedCandidates) = 3
    /\ rag.outcome.rankedCandidates[3].score = RagCfg.minScore
    /\ Len(rag.outcome.topCandidates) = RagCfg.topKResults

\* the position of the first scored candidate of a FAQ id
FirstSeen(id) ==
    CHOOSE i \in Contributions(id) : \A j \in Contributions(id) : i <= j

\* ranks are the positions, scores never increase, and of two FAQs with
\* equal scores the one accumulated first comes first
RankedInOrder ==
    LET ranked == rag.outcome.rankedCandidates
    IN  /\ \A i \in 1..Len(ranked) : ranked[i].rank = i
        /\ \A i, j \in 1..Len(ranked) :
              i < j => /\ ranked[i].score >= ranked[j].score
                       /\ ranked[i].score = ranked[j].score
                             => FirstSeen(ranked[i].faqId) < FirstSeen(ranked[j].faqId)

\* the FAQ ids in the order retrieve ranks them when every row it was
\* served is scored at clock value t
OrderAt(t) ==
    LET rescored == [ i \in 1..Len(rag.candidates) |->
                        ScoreOne(rag.candidates[i].row,
                                 [ reason |-> rag.candidates[i].variantReason,
                                   weight |-> rag.candidates[i].variantWeight ],
                                 rag.session, RagCfg, t) ]
        ranked == Ranked(aggregateCandidates(rescored))
    IN  [ i \in 1..Len(ranked) |-> ranked[i].faqId ]

\* C14: rankedCandidates is ordered by non-increasing score, rank is the
\* 1-based position, candidates with equal scores keep the order in which
\* their FAQ id was first accumulated, and the order is the same whatever
\* the clock reads when the rows are scored (it is determined by the store
\* responses alone).
C14_RankingFromResponsesAlone ==
    (rag.pc = "done" /\ rag.outcome.kind = "result") =>
        /\ RankedInOrder
        /\ \A t \in 0..RagMaxTime :
              OrderAt(t) = [ i \in 1..Len(rag.outcome.rankedCandidates) |->
                               rag.outcome.rankedCandidates[i].faqId ]

\* C14 (amended): rankedCandidates is ordered by non-increasing score, rank
\* is the 1-based position, and candidates with equal scores keep the order
\* in which their FAQ id was first accumulated.
C14_RankedStable ==
    (rag.pc = "done" /\ rag.outcome.kind = "result") => RankedInOrder

\* two FAQs with equal scores are ranked
C14_Witness ==
    /\ rag.pc = "done"
    /\ rag.outcome.kind = "result"
    /\ \E i, j \in 1..Len(rag.outcome.rankedCandidates) :
          /\ i < j
          /\ rag.outcome.rankedCandidates[i].score = rag.outcome.rankedCandidates[j].score

\* variant k of the retrieve in progress may use the fallback chain: it allows
\* it, it is not the category-prefixed variant, and if it is a synonym variant
\* it is the first of them
MayFallBack(k) ==
    /\ rag.variants[k].allowFallback
    /\ rag.variants[k].reason # "rubrique"
    /\ rag.variants[k].reason = "synonym"
          => \A j \in 1..(k - 1) : rag.variants[j].reason # "synonym"

\* C23: during retrieve the fallback chain is entered for a variant only when
\* the cached or primary result of that variant is empty or failed and the
\* variant has allowFallback = true; searchFaqContent is never called for the
\* category-prefixed variant nor for a synonym variant after the first.
C23_FallbackOnlyWhenAllowed ==
    /\ (rag.pc = "fallback")
          => /\ MayFallBack(rag.vi)
             /\ (rag.fi = 1)
                   => /\ rag.lastCall.vi = rag.vi
                      /\ rag.lastCall.fn \in { "cache", "searchFaqs" }
                      /\ ~NonEmpty(rag.lastCall.out)
    /\ (rag.pc # "idle" /\ rag.lastCall.fn = "searchFaqContent")
          => MayFallBack(rag.lastCall.vi)

\* Witness of C23: the category-prefixed variant got an empty answer from
\* searchFaqs and retrieve ended without a call of the fallback chain for it
\* (the base variant before it went through the whole chain).
C23_Witness ==
    /\ rag.pc = "done"
    /\ rag.lastCall.vi = 2
    /\ rag.lastCall.fn = "searchFaqs"
    /\ ~NonEmpty(rag.lastCall.out)
    /\ rag.variants[2].reason = "rubrique"
    /\ ~rag.variants[2].allowFallback
    /\ ~rag.served

\* a ?? b ?? c on numbers: only an absent value gives way to the next one
NullishBase(result) ==
    IF result.enhanced_relevance # Absent THEN result.enhanced_relevance
    ELSE IF result.relevance # Absent THEN result.relevance
         ELSE 20

\* C24: the base relevance of a scored candidate is the enhanced relevance of
\* its row when present (0 included), else the relevance of the row when
\* present (0 included), else 0.2; the score is that base times the weight of
\* the variant plus the product, category and recency boosts (the recency
\* boost taken at the clock reading of the scoring).
C24_BaseRelevanceNullish ==
    (rag.pc # "idle") =>
        \A i \in 1..Len(rag.candidates) :
            LET c == rag.candidates[i]
            IN  \E t \in 0..now :
                    c.score = (NullishBase(c.row) * c.variantWeight)
                              + (IF rag.session.productCode # None
                                    /\ c.row.product_ref = rag.session.productCode
                                 THEN RagCfg.productBoost ELSE 0)
                              + (IF rag.session.rubrique # None
                                    /\ c.row.rubrique = rag.session.rubrique
                                 THEN RagCfg.rubriqueBoost ELSE 0)
                              + RecencyBoost(c.row, t)

(***************************************************************************)
(* Several retrieve calls in flight at once.  Node runs one handler at a   *)
(* time: a retrieve runs from one store call to the next without           *)
(* interruption, and while it waits for the store the other retrieves and  *)
(* the sweep of the cache run.  All of them share one CacheService.        *)
(***************************************************************************)
\* Clients with a retrieve in flight at once.
Clients == 1..2

\* Most retrieves the clients make in all.
MaxClientRuns == 2

RECURSIVE SumRuns(_, _)
\* the retrieves made so far by the clients 1..p
SumRuns(r, p) == IF p = 0 THEN 0 ELSE r[p].runs + SumRuns(r, p - 1)

\* what the store answers to the clients: a row, which is cached, or an
\* exception, which is not and sends the variant to the fallback chain
ClientOutcomes == { Rows(<<Faq2>>), Throw }

\* the clients ask the same question in the same session
ClientInput ==
    [query |-> <<"prix">>,
     session |-> [languageCode |-> "fr", rubrique |-> None, productCode |-> None]]

InitClients ==
    /\ cache = << >>
    /\ accessOrder = << >>
    /\ now = 0
    /\ lastOp = NoOp
    /\ vq = << >>
    /\ rag = << >>
    /\ cacheDown = FALSE
    /\ fb = << >>
    /\ st = << >>
    /\ qa = << >>
    /\ sched = << >>
    /\ reqs = [ p \in Clients |-> IdleRag(0) ]
    /\ chat = << >>

ClientStep(p, next) ==
    /\ reqs' = [reqs EXCEPT ![p] = next.rag]
    /\ cache' = next.cache
    /\ accessOrder' = next.accessOrder
    /\ UNCHANGED <<now, lastOp, vq, rag, cacheDown, fb, st, qa, sched, chat>>

\* client p calls retrieve(query, session)
ClientRetrieve(p) ==
    /\ reqs[p].pc = "idle"
    /\ SumRuns(reqs, Cardinality(Clients)) < MaxClientRuns
    /\ ClientStep(p, RunLoop([IdleRag(reqs[p].runs + 1) EXCEPT
                                !.query = ClientInput.query,
                                !.session = ClientInput.session,
                                !.variants = buildQueryVariants(ClientInput.query,
                                                                ClientInput.session, RagCfg),
                                !.vi = 1],
                             cache, accessOrder))

\* database.searchFaqs answers client p
ClientPrimaryReturn(p, answer) ==
    /\ reqs[p].pc = "primary"
    /\ LET r0 == reqs[p]
           filters == buildFilters(r0.session, r0.variants[r0.vi], RagCfg)
           r == Called(r0, "searchFaqs", 0, filters, answer)
           put == PrimaryResults(r, answer, cache, accessOrder)
       IN  ClientStep(p, AfterPrimary(r, put.results, put.cache, put.accessOrder))

\* database.searchFaqContent answers step fi of the fallback chain of client p
ClientFallbackReturn(p, answer) ==
    /\ reqs[p].pc = "fallback"
    /\ LET r0 == reqs[p]
           r == Called(r0, "searchFaqContent", r0.fi, r0.fbs[r0.fi], answer)
       IN  IF NonEmpty(answer)
           THEN ClientStep(p, AfterResults(r, answer, cache, accessOrder))
           ELSE IF r0.fi < Len(r0.fbs)
                THEN ClientStep(p, [rag |-> [r EXCEPT !.fi = r0.fi + 1],
                                    cache |-> cache, accessOrder |-> accessOrder])
                ELSE ClientStep(p, AfterResults(r, [kind |-> "null"], cache, accessOrder))

\* client p takes the value of its retrieve
ClientReturn(p) ==
    /\ reqs[p].pc = "done"
    /\ reqs' = [reqs EXCEPT ![p] = IdleRag(reqs[p].runs)]
    /\ UNCHANGED <<core, fb, st, qa, sched, chat>>

NextClients ==
    \/ \E p \in Clients : ClientRetrieve(p)
    \/ \E p \in Clients, answer \in ClientOutcomes : ClientPrimaryReturn(p, answer)
    \/ \E p \in Clients, answer \in ClientOutcomes : ClientFallbackReturn(p, answer)
    \/ \E p \in Clients : ClientReturn(p)
    \/ Sweep
    \/ Tick

SpecClients == InitClients /\ [][NextClients]_vars

\* C21: for every interleaving of the retrieve calls in flight (interleaved
\* at their store calls) with the periodic sweep, the entry map and the
\* last-access map hold exactly the same set of keys, each key once.
C21_MapsHoldSameKeys ==
    /\ MapKeys(cache) = MapKeys(accessOrder)
    /\ Len(cache) = Cardinality(MapKeys(cache))
    /\ Len(accessOrder) = Cardinality(MapKeys(accessOrder))

\* Witness of C21: two retrieves wait for the store on the same cache key
\* while the cache holds entries, one of them expired.
C21_Witness ==
    /\ reqs[1].pc = "primary"
    /\ reqs[2].pc = "primary"
    /\ reqs[1].variants[reqs[1].vi].cacheKey = reqs[2].variants[reqs[2].vi].cacheKey
    /\ Len(cache) > 0
    /\ \E i \in 1..Len(cache) : now > cache[i].expires

(***************************************************************************)
(* Text of the matcher.  Where characters matter a JavaScript string is    *)
(* the sequence of its characters, each a one-character string.            *)
(***************************************************************************)
\* the characters of a string literal
Chars(s) == [ i \in 1..Len(s) |-> SubSeq(s, i, i) ]

UpperCase == Chars("ABCDEFGHIJKLMNOPQRSTUVWXYZ")

LowerCase == Chars("abcdefghijklmnopqrstuvwxyz")

\* the characters of the class \w
WordChars ==
    { UpperCase[i] : i \in 1..26 } \cup { LowerCase[i] : i \in 1..26 }
        \cup { "0", "1", "2", "3", "4", "5", "6", "7", "8", "9", "_" }

\* the characters of the class \s that the model uses
IsSpace(c) == c = " "

toLowerCase(s) ==
    [ i \in 1..Len(s) |->
        IF \E k \in 1..26 : UpperCase[k] = s[i]
        THEN LowerCase[CHOOSE k \in 1..26 : UpperCase[k] = s[i]]
        ELSE s[i] ]

RECURSIVE trimStart(_)
trimStart(s) == IF s # << >> /\ IsSpace(Head(s)) THEN trimStart(Tail(s)) ELSE s

RECURSIVE trimEnd(_)
trimEnd(s) ==
    IF s # << >> /\ IsSpace(s[Len(s)]) THEN trimEnd(SubSeq(s, 1, Len(s) - 1)) ELSE s

trim(s) == trimEnd(trimStart(s))

\* String.prototype.includes
StringIncludes(s, sub) ==
    \E i \in 1..(Len(s) - Len(sub) + 1) : SubSeq(s, i, i + Len(sub) - 1) = sub

\* String.prototype.endsWith
EndsWith(s, suffix) ==
    /\ Len(s) >= Len(suffix)
    /\ SubSeq(s, Len(s) - Len(suffix) + 1, Len(s)) = suffix

RECURSIVE SplitFrom(_, _, _, _)
\* split(/\s+/): a run of spaces ends the current piece, the rest of the
\* run is skipped, and the end of the string ends the last piece
SplitFrom(pieces, piece, inRun, rest) ==
    IF rest = << >> THEN Append(pieces, piece)
    ELSE IF IsSpace(Head(rest))
         THEN IF inRun THEN SplitFrom(pieces, piece, TRUE, Tail(rest))
              ELSE SplitFrom(Append(pieces, piece), << >>, TRUE, Tail(rest))
         ELSE SplitFrom(pieces, Append(piece, Head(rest)), FALSE, Tail(rest))

SplitSpaces(s) == SplitFrom(<< >>, << >>, FALSE, s)

\* replace(/[^\w\s]/g, ' ')
PunctuationToSpaces(s) ==
    [ i \in 1..Len(s) |-> IF s[i] \in WordChars \/ IsSpace(s[i]) THEN s[i] ELSE " " ]

(***************************************************************************)
(* stemWord of ChatService and of Database                                 *)
(***************************************************************************)
\* frenchSuffixes of ChatService.stemWord, in table order
frenchSuffixes ==
    << "tion", "sion", "ment", "ique", "able", "ible", "eur", "euse",
       "ant", "ent", "ais", "ait", "ons", "ez", "ont", "er", "ir", "oir" >>

\* frenchSuffixes of Database.stemWord, in table order (every replacement
\* is the empty string)
databaseSuffixes ==
    << "ation", "tion", "sion", "ment", "ique", "able", "ible", "eur", "euse",
       "ant", "ent", "er", "ir", "oir", "ez", "ons", "ont", "ais", "ait",
       "es", "s" >>

RECURSIVE StemFrom(_, _, _)
\* the loop over the table: the first suffix the word ends with and is
\* more than two characters longer than is cut off, and the loop ends
StemFrom(table, i, word) ==
    IF i > Len(table) THEN word
    ELSE LET suffix == Chars(table[i])
         IN  IF EndsWith(word, suffix) /\ Len(word) > Len(suffix) + 2
             THEN SubSeq(word, 1, Len(word) - Len(suffix))
             ELSE StemFrom(table, i + 1, word)

stemWord(word) == StemFrom(frenchSuffixes, 1, word)

DatabaseStemWord(word) == StemFrom(databaseSuffixes, 1, word)

\* the words stemWord is applied to: stems of two to six letters followed
\* by nothing or by a suffix of one of the tables
StemStems == { "mo", "fin", "pouv", "inform" }

StemWords ==
    { Chars(stem) \o Chars(suffix) :
        stem \in StemStems,
        suffix \in {""} \cup { databaseSuffixes[i] : i \in 1..Len(databaseSuffixes) } }

InitStem ==
    /\ cache = << >>
    /\ accessOrder = << >>
    /\ now = 0
    /\ lastOp = NoOp
    /\ vq = << >>
    /\ rag = << >>
    /\ cacheDown = FALSE
    /\ fb = << >>
    /\ qa = << >>
    /\ sched = << >>
    /\ reqs = << >>
    /\ chat = << >>
    /\ st \in { [stemmer |-> c, word |-> w, done |-> FALSE, out |-> << >>] :
                  c \in {"ChatService", "Database"}, w \in StemWords }

StemWord ==
    /\ ~st.done
    /\ st' = [st EXCEPT !.done = TRUE,
                        !.out = IF st.stemmer = "ChatService" THEN stemWord(st.word)
                                ELSE DatabaseStemWord(st.word)]
    /\ UNCHANGED <<core, fb, qa, sched, reqs, chat>>

NextStem == StemWord

SpecStem == InitStem /\ [][NextStem]_vars

\* the suffixes of the table of the stemmer in use that the word ends with
\* and that leave at least 3 characters of it
MatchingSuffixes ==
    LET table == IF st.stemmer = "ChatService" THEN frenchSuffixes ELSE databaseSuffixes
    IN  { x \in { Chars(table[i]) : i \in 1..Len(table) } :
            EndsWith(st.word, x) /\ Len(st.word) - Len(x) >= 3 }

\* C20: stemWord cuts off exactly one suffix, the longest suffix of the
\* table that the word ends with and that leaves at least 3 characters,
\* and returns the word unchanged when there is none.
C20_LongestSuffixStripped ==
    st.done =>
        IF MatchingSuffixes = {} THEN st.out = st.word
        ELSE LET longest == CHOOSE x \in MatchingSuffixes :
                                \A y \in MatchingSuffixes : Len(y) <= Len(x)
             IN  st.out = SubSeq(st.word, 1, Len(st.word) - Len(longest))

(***************************************************************************)
(* ChatService: the matcher.  A component score is an integer number of    *)
(* three-hundredths (1.0 is 300), a composite score an integer number of   *)
(* three-thousandths (1.0 is 3000, the threshold 0.3 is 900); both are     *)
(* exact for queries of at most six words and relevances in hundredths.    *)
(***************************************************************************)
\* stopWords of extractQueryWords; its entries with an accented letter can
\* never equal a piece, since the pieces hold characters of \w only
stopWords ==
    { Chars(w) : w \in
        { "le", "la", "les", "un", "une", "des", "du", "de", "et", "ou", "au",
          "aux", "ce", "cette", "ces", "comment", "que", "qui", "quoi", "quand",
          "pourquoi", "je", "tu", "il", "elle", "nous", "vous", "ils", "elles",
          "puis", "peux", "peut", "pouvez", "peuvent" } }

SeqMap(Op(_), s) == [ i \in 1..Len(s) |-> Op(s[i]) ]

extractQueryWords(query) ==
    SeqMap(stemWord,
           SelectSeq(SplitSpaces(PunctuationToSpaces(query)),
                     LAMBDA word : Len(word) > 2 /\ word \notin stopWords))

keyPhrases ==
    SeqMap(Chars, << "contacter le support", "contact support", "joindre le support",
                     "appeler le support", "comment contacter", "contacter",
                     "puis-je contacter" >>)

calculateExactMatchScore(query, question) ==
    IF StringIncludes(question, query) THEN 300
    ELSE IF StringIncludes(query, question) THEN 270
    ELSE IF \E i \in 1..Len(keyPhrases) :
                /\ StringIncludes(query, keyPhrases[i]) \/ StringIncludes(keyPhrases[i], query)
                /\ StringIncludes(question, Chars("contacter"))
                      \/ StringIncludes(question, Chars("contact"))
         THEN 270
         ELSE 0

\* synonymMap of getSynonyms
chatSynonymMap ==
    [ contacter   |-> <<"contact", "joindre", "appeler", "telephoner", "ecrire", "communication">>,
      contact     |-> <<"contacter", "joindre", "appeler", "telephoner", "ecrire", "communication">>,
      support     |-> <<"aide", "assistance", "service", "client", "soutien">>,
      aide        |-> <<"support", "assistance", "service", "soutien">>,
      horaire     |-> <<"heure", "ouverture", "fermeture", "disponible", "planning">>,
      prix        |-> <<"cout", "tarif", "montant", "frais", "facture">>,
      probleme    |-> <<"souci", "difficulte", "erreur", "bug", "dysfonctionnement">>,
      compte      |-> <<"profil", "utilisateur", "client", "espace">>,
      produit     |-> <<"service", "offre", "solution", "prestation">>,
      paiement    |-> <<"reglement", "facture", "transaction", "versement">>,
      inscription |-> <<"enregistrement", "creation", "souscription">>,
      connexion   |-> <<"login", "authentification", "acces", "identification">>,
      joindre     |-> <<"contacter", "contact", "appeler", "telephoner">>,
      appeler     |-> <<"contacter", "contact", "joindre", "telephoner">> ]

getSynonyms(word) ==
    LET keys == { k \in DOMAIN chatSynonymMap : Chars(k) = word }
    IN  IF keys = {} THEN << >>
        ELSE SeqMap(Chars, chatSynonymMap[CHOOSE k \in keys : TRUE])

\* 1 for a query word among the question words, 0.8 for one with a synonym
\* among them, in fifths
SemanticCredit(queryWord, questionWords) ==
    IF Includes(questionWords, queryWord) THEN 5
    ELSE IF \E i \in 1..Len(getSynonyms(queryWord)) :
                Includes(questionWords, getSynonyms(queryWord)[i])
         THEN 4
         ELSE 0

RECURSIVE SumSeq(_)
SumSeq(s) == IF s = << >> THEN 0 ELSE Head(s) + SumSeq(Tail(s))

calculateSemanticScore(queryWords, question) ==
    IF Len(queryWords) = 0 THEN 0
    ELSE LET questionWords == extractQueryWords(question)
             matches == SumSeq([ i \in 1..Len(queryWords) |->
                                   SemanticCredit(queryWords[i], questionWords) ])
         IN  (60 * matches) \div Len(queryWords)

calculatePartialMatchScore(query, question) ==
    LET queryWords == SplitSpaces(query)
        partialMatches == Cardinality({ i \in 1..Len(queryWords) :
                                          /\ Len(queryWords[i]) > 3
                                          /\ StringIncludes(question, queryWords[i]) })
    IN  (300 * partialMatches) \div Len(queryWords)

\* Array.prototype.indexOf, 1-based, 0 for -1
IndexOf(s, x) ==
    IF Includes(s, x)
    THEN CHOOSE i \in 1..Len(s) : s[i] = x /\ \A j \in 1..(i - 1) : s[j] # x
    ELSE 0

calculateWordOrderScore(queryWords, question) ==
    IF Len(queryWords) < 2 THEN 0
    ELSE LET questionWords == extractQueryWords(question)
             orderMatches ==
                 Cardinality({ i \in 1..(Len(queryWords) - 1) :
                                 LET word1Index == IndexOf(questionWords, queryWords[i])
                                     word2Index == IndexOf(questionWords, queryWords[i + 1])
                                 IN  /\ word1Index # 0
                                     /\ word2Index # 0
                                     /\ word1Index < word2Index })
         IN  (300 * orderMatches) \div (Len(queryWords) - 1)

getMatchType(exactScore, semanticScore, partialScore) ==
    IF exactScore > 240 THEN "exact"
    ELSE IF semanticScore > 210 THEN "semantic"
    ELSE IF partialScore > 180 THEN "partial"
    ELSE "weak"

\* faq.enhanced_relevance || faq.relevance || 0, in hundredths
DbRelevance(faq) ==
    IF faq.enhanced_relevance # Absent /\ faq.enhanced_relevance # 0
    THEN faq.enhanced_relevance
    ELSE IF faq.relevance # Absent /\ faq.relevance # 0
         THEN faq.relevance
         ELSE 0

\* the scores of one question of a row, lines 854-870
PairScores(queryLower, queryWords, faq, qaEntry) ==
    LET question == toLowerCase(qaEntry.question)
        exactScore == calculateExactMatchScore(queryLower, question)
        semanticScore == calculateSemanticScore(queryWords, question)
        partialScore == calculatePartialMatchScore(queryLower, question)
        wordOrderScore == calculateWordOrderScore(queryWords, question)
        totalScore == (exactScore * 4) + (semanticScore * 3) + (partialScore * 2)
                         + wordOrderScore
    IN  [ finalScore |-> totalScore + (DbRelevance(faq) * 3),
          matchType  |-> getMatchType(exactScore, semanticScore, partialScore) ]

\* this.config.searchThreshold || 0.3
Threshold(searchThreshold) == IF searchThreshold = 0 THEN 900 ELSE searchThreshold

NullMatch ==
    [ kind |-> "null", faqId |-> 0, question |-> << >>, answer |-> None,
      score |-> 0, matchType |-> None ]

MatchEntry_LastOnTies(best, faq, qaEntry, queryLower, queryWords, searchThreshold) ==
    IF qaEntry.code = "app.faq_entry" /\ qaEntry.hasData
    THEN LET scores == PairScores(queryLower, queryWords, faq, qaEntry)
         IN  IF scores.finalScore >= best.score
                /\ scores.finalScore >= Threshold(searchThreshold)
             THEN [ kind |-> "match", faqId |-> faq.id, question |-> qaEntry.question,
                    answer |-> qaEntry.answer, score |-> scores.finalScore,
                    matchType |-> scores.matchType ]
             ELSE best
    ELSE best

\* the body of the loop over the entries of a row; best holds bestMatch
\* and, as its score, bestScore
MatchEntry(best, faq, qaEntry, queryLower, queryWords, searchThreshold) ==
    IF qaEntry.code = "app.faq_entry" /\ qaEntry.hasData
    THEN LET scores == PairScores(queryLower, queryWords, faq, qaEntry)
         IN  IF scores.finalScore > best.score
                /\ scores.finalScore >= Threshold(searchThreshold)
             THEN [ kind |-> "match", faqId |-> faq.id, question |-> qaEntry.question,
                    answer |-> qaEntry.answer, score |-> scores.finalScore,
                    matchType |-> scores.matchType ]
             ELSE best
    ELSE best

RECURSIVE MatchEntries(_, _, _, _, _, _)
MatchEntries(best, faq, qaEntries, queryLower, queryWords, searchThreshold) ==
    IF qaEntries = << >> THEN best
    ELSE MatchEntries(MatchEntry(best, faq, Head(qaEntries), queryLower, queryWords,
                                 searchThreshold),
                      faq, Tail(qaEntries), queryLower, queryWords, searchThreshold)

RECURSIVE MatchRows_CatchAroundLoop(_, _, _, _, _)
MatchRows_CatchAroundLoop(best, faqResults, queryLower, queryWords, searchThreshold) ==
    IF faqResults = << >> THEN best
    ELSE LET faq == Head(faqResults)
         IN  IF faq.qa_data.kind = "unparseable" THEN best
             ELSE MatchRows_CatchAroundLoop(
                      MatchEntries(best, faq, faq.qa_data.entries, queryLower,
                                   queryWords, searchThreshold),
                      Tail(faqResults), queryLower, queryWords, searchThreshold)

RECURSIVE MatchRows(_, _, _, _, _)
\* the loop over the rows: JSON.parse of an unparseable payload throws into
\* the catch of the row, which logs and goes on with the next row; a payload
\* that is a single object is taken as a list of one entry
MatchRows(best, faqResults, queryLower, queryWords, searchThreshold) ==
    IF faqResults = << >> THEN best
    ELSE LET faq == Head(faqResults)
         IN  MatchRows(IF faq.qa_data.kind = "unparseable" THEN best
                       ELSE MatchEntries(best, faq, faq.qa_data.entries, queryLower,
                                         queryWords, searchThreshold),
                       Tail(faqResults), queryLower, queryWords, searchThreshold)

findBestQAMatchEnhanced(query, faqResults, searchThreshold) ==
    LET queryLower == trim(toLowerCase(query))
        queryWords == extractQueryWords(queryLower)
    IN  MatchRows(NullMatch, faqResults, queryLower, queryWords, searchThreshold)

(***************************************************************************)
(* findBestQAMatchEnhanced as a function of the query, the candidate rows  *)
(* and the configured threshold                                            *)
(***************************************************************************)
\* an entry of a QA payload
QaEntry(code, question, answer) ==
    [ code |-> code, hasData |-> TRUE, question |-> Chars(question), answer |-> answer ]

\* a candidate row; its payload is a list of entries, a single entry, or a
\* string JSON.parse rejects
QaRow(id, er, rel, kind, entries) ==
    [ id |-> id, enhanced_relevance |-> er, relevance |-> rel,
      qa_data |-> [kind |-> kind, entries |-> entries] ]

QaRows ==
    { QaRow(1, 50, 10, "array", << QaEntry("app.faq_entry", "prix", "a1") >>),
      QaRow(2, Absent, 0, "array", << QaEntry("app.faq_entry", "Tva", "a2"),
                                      QaEntry("app.faq_entry", "Support technique", "a3") >>),
      QaRow(3, 50, 10, "unparseable", << >>),
      QaRow(4, 300, 40, "array", << QaEntry("app.faq_entry", "Mon compte ", "a4") >>),
      QaRow(5, 50, 10, "array", << QaEntry("app.faq_entry", "Prix", "a5") >>),
      QaRow(6, 90, 10, "object", << QaEntry("app.other", "prix", "a6") >>),
      QaRow(7, Absent, 0, "array", << QaEntry("app.faq_entry", None, "a7") >>) }

MatcherQueries ==
    { Chars(q) : q \in { " Prix ", "TVA", "port", "mon compte", "aide", "horaires" } }

RECURSIVE SeqsUpTo(_, _)
\* the sequences of at most n elements of S
SeqsUpTo(S, n) ==
    IF n = 0 THEN { << >> }
    ELSE LET shorter == SeqsUpTo(S, n - 1)
         IN  shorter \cup { Append(q, x) : q \in shorter, x \in S }

InitMatcher ==
    /\ cache = << >>
    /\ accessOrder = << >>
    /\ now = 0
    /\ lastOp = NoOp
    /\ vq = << >>
    /\ rag = << >>
    /\ cacheDown = FALSE
    /\ fb = << >>
    /\ st = << >>
    /\ sched = << >>
    /\ reqs = << >>
    /\ chat = << >>
    /\ qa \in { [ query |-> q, faqResults |-> rows, searchThreshold |-> th,
                  done |-> FALSE, out |-> NullMatch ] :
                  q \in MatcherQueries, rows \in SeqsUpTo(QaRows, MaxRows),
                  th \in {0, 1800} }

FindBestMatch ==
    /\ ~qa.done
    /\ qa' = [qa EXCEPT !.done = TRUE,
                        !.out = findBestQAMatchEnhanced(qa.query, qa.faqResults,
                                                        qa.searchThreshold)]
    /\ UNCHANGED <<core, fb, st, sched, reqs, chat>>

NextMatcher == FindBestMatch

SpecMatcher == InitMatcher /\ [][NextMatcher]_vars

\* the question/answer pairs of the candidate rows: <<i, j>> for entry j of
\* row i, when the payload of the row parses and the entry is a FAQ entry
Pairs ==
    { p \in UNION { { <<i, j>> : j \in 1..Len(qa.faqResults[i].qa_data.entries) } :
                      i \in 1..Len(qa.faqResults) } :
        /\ qa.faqResults[p[1]].qa_data.kind # "unparseable"
        /\ qa.faqResults[p[1]].qa_data.entries[p[2]].code = "app.faq_entry" }

PairEntry(p) == qa.faqResults[p[1]].qa_data.entries[p[2]]

\* the composite score and match type of a pair for the query
ScoreOfPair(p) ==
    PairScores(trim(toLowerCase(qa.query)),
               extractQueryWords(trim(toLowerCase(qa.query))),
               qa.faqResults[p[1]], PairEntry(p))

\* pair p comes before pair r in the candidate rows
Before(p, r) == p[1] < r[1] \/ (p[1] = r[1] /\ p[2] < r[2])

\* C15: the match returned is the pair with the highest composite score of
\* all pairs of all rows, the first of them on ties, when that score is at
\* least the threshold; null is returned when no pair reaches the threshold
\* and when there are no rows.
C15_BestPairOrNull ==
    qa.done =>
        LET reaching == { p \in Pairs :
                            ScoreOfPair(p).finalScore >= Threshold(qa.searchThreshold) }
        IN  IF reaching = {} THEN qa.out.kind = "null"
            ELSE LET best == CHOOSE p \in reaching :
                                \A r \in reaching :
                                    \/ ScoreOfPair(r).finalScore < ScoreOfPair(p).finalScore
                                    \/ /\ ScoreOfPair(r).finalScore = ScoreOfPair(p).finalScore
                                       /\ ~Before(r, p)
                 IN  /\ qa.out.kind = "match"
                     /\ qa.out.faqId = qa.faqResults[best[1]].id
                     /\ qa.out.question = PairEntry(best).question
                     /\ qa.out.answer = PairEntry(best).answer
                     /\ qa.out.score = ScoreOfPair(best).finalScore

\* two rows hold pairs with the same, highest score and the first is returned
C15_Witness ==
    /\ qa.done
    /\ qa.out.kind = "match"
    /\ Len(qa.faqResults) = 2
    /\ qa.faqResults[1].id # qa.faqResults[2].id
    /\ qa.out.faqId = qa.faqResults[1].id
    /\ <<2, 1>> \in Pairs
    /\ ScoreOfPair(<<2, 1>>).finalScore = qa.out.score

\* the candidate rows without those whose payload does not parse
Parseable(rows) == SelectSeq(rows, LAMBDA faq : faq.qa_data.kind # "unparseable")

\* C16: a row whose QA payload cannot be parsed is skipped: the match
\* returned is the one returned for the candidate rows without it.
C16_BadRowSkipped ==
    (qa.done /\ Parseable(qa.faqResults) # qa.faqResults) =>
        qa.out = findBestQAMatchEnhanced(qa.query, Parseable(qa.faqResults),
                                         qa.searchThreshold)

\* the row after an unparseable row is matched
C16_Witness ==
    /\ qa.done
    /\ Len(qa.faqResults) = 2
    /\ qa.faqResults[1].qa_data.kind = "unparseable"
    /\ qa.out.kind = "match"
    /\ qa.out.faqId = qa.faqResults[2].id

\* C17: a query equal to the question of a pair, ignoring case and
\* surrounding whitespace, gets match type "exact" and a composite score of
\* at least 0.8 for that pair, so that the match returned scores at least
\* 0.8 as well.
C17_ExactEqualityScore ==
    qa.done =>
        \A p \in Pairs :
            trim(toLowerCase(qa.query)) = trim(toLowerCase(PairEntry(p).question))
            => /\ ScoreOfPair(p).matchType = "exact"
               /\ ScoreOfPair(p).finalScore >= 2400
               /\ qa.out.kind = "match"
               /\ qa.out.score >= 2400

\* the stemmed words of the query and of the question of the pair
QueryWordsOf == extractQueryWords(trim(toLowerCase(qa.query)))

QuestionWordsOf(p) == extractQueryWords(toLowerCase(PairEntry(p).question))

\* no word of the one is a word or a synonym of a word of the other
Unrelated(p) ==
    \A i \in 1..Len(QueryWordsOf), j \in 1..Len(QuestionWordsOf(p)) :
        /\ QueryWordsOf[i] # QuestionWordsOf(p)[j]
        /\ ~Includes(getSynonyms(QueryWordsOf[i]), QuestionWordsOf(p)[j])
        /\ ~Includes(getSynonyms(QuestionWordsOf(p)[j]), QueryWordsOf[i])

\* C18: a pair whose question shares no stemmed word with the query and has
\* no synonym relation with it scores below 0.3, the stored relevance
\* included, and is not returned at the default threshold.
C18_UnrelatedRejected ==
    qa.done =>
        \A p \in Pairs :
            Unrelated(p)
            => /\ ScoreOfPair(p).finalScore < 900
               /\ (qa.searchThreshold = 0 /\ qa.out.kind = "match")
                     => ~ /\ qa.out.faqId = qa.faqResults[p[1]].id
                          /\ qa.out.question = PairEntry(p).question

\* C30: findBestQAMatchEnhanced never returns a pair whose stored question
\* is empty or missing (every query of the model is non-empty).
C30_EmptyQuestionNeverSelected ==
    (qa.done /\ qa.out.kind = "match") => Len(qa.out.question) > 0

(***************************************************************************)
(* handleSpecialSuggestions, the "contact support" intent: up to three     *)
(* store searches, then the matcher, then the answer or the hard-coded     *)
(* contact message                                                         *)
(***************************************************************************)
\* bestMatch.score >= 0.2, in three-thousandths
ContactThreshold == 600

ContactQuery == Chars("comment contacter support")

\* the rows of the first search that found any
FirstFound(searches) ==
    IF Len(searches[1]) # 0 THEN searches[1]
    ELSE IF Len(searches[2]) # 0 THEN searches[2]
         ELSE searches[3]

\* the hard-coded contact message
ContactFallback == [ kind |-> "fallback", faqId |-> 0, message |-> "contact", canEscalate |-> TRUE ]

\* lines 1332-1379, once the searches have answered
ContactSupport(searches, searchThreshold) ==
    LET faqResults == FirstFound(searches)
    IN  IF Len(faqResults) > 0
        THEN LET bestMatch == findBestQAMatchEnhanced(ContactQuery, faqResults,
                                                      searchThreshold)
             IN  IF bestMatch.kind = "match" /\ bestMatch.score >= ContactThreshold
                 THEN [ kind |-> "answer", faqId |-> bestMatch.faqId,
                        message |-> bestMatch.answer, canEscalate |-> TRUE ]
                 ELSE ContactFallback
        ELSE ContactFallback

\* rows the store holds about support
ContactRows ==
    { QaRow(2, Absent, 0, "array", << QaEntry("app.faq_entry", "Tva", "a2"),
                                      QaEntry("app.faq_entry", "Support technique", "a3") >>),
      QaRow(1, 50, 10, "array", << QaEntry("app.faq_entry", "prix", "a1") >>),
      QaRow(8, Absent, 0, "array", << QaEntry("app.faq_entry", "Nous contacter", "a8") >>) }

InitContact ==
    /\ cache = << >>
    /\ accessOrder = << >>
    /\ now = 0
    /\ lastOp = NoOp
    /\ vq = << >>
    /\ rag = << >>
    /\ cacheDown = FALSE
    /\ fb = << >>
    /\ st = << >>
    /\ sched = << >>
    /\ reqs = << >>
    /\ chat = << >>
    /\ qa \in { [ query |-> ContactQuery, searches |-> <<r1, r2, r3>>,
                  faqResults |-> FirstFound(<<r1, r2, r3>>),
                  searchThreshold |-> th, done |-> FALSE, out |-> NullMatch ] :
                  r1 \in SeqsUpTo(ContactRows, MaxRows),
                  r2 \in SeqsUpTo(ContactRows, 1),
                  r3 \in SeqsUpTo(ContactRows, 1),
                  th \in {0, 1800} }

\* the user clicks "Contacter le support"
HandleContactSupport ==
    /\ ~qa.done
    /\ qa' = [qa EXCEPT !.done = TRUE,
                        !.out = ContactSupport(qa.searches, qa.searchThreshold)]
    /\ UNCHANGED <<core, fb, st, sched, reqs, chat>>

NextContact == HandleContactSupport

SpecContact == InitContact /\ [][NextContact]_vars

\* C25: for the contact-support intent the lower threshold 0.2 applies: when
\* the best pair of the rows found has a composite score of at least 0.2,
\* below the default 0.3 of the matcher or not, its answer is returned and
\* not the hard-coded contact message.
C25_ContactLowerThreshold ==
    qa.done =>
        LET reaching == { p \in Pairs : ScoreOfPair(p).finalScore >= ContactThreshold }
        IN  reaching # {} =>
                /\ qa.out.kind = "answer"
                /\ \E p \in reaching :
                      /\ \A r \in reaching :
                            ScoreOfPair(r).finalScore <= ScoreOfPair(p).finalScore
                      /\ qa.out.message = PairEntry(p).answer
                      /\ qa.out.faqId = qa.faqResults[p[1]].id

\* ---------------------------------------------------------------------------
\* The scheduler worker (scripts/scheduler-worker.js).  One SchedulerWorker
\* lives in one worker thread: its handlers run to completion one after the
\* other, and a synchronization run is suspended only at `await sync.sync()`.
\* The standalone SyncScheduler (scripts/scheduler.js) has the same runSync and
\* the cron trigger only.
\* ---------------------------------------------------------------------------

\* Most triggers and messages of one behaviour.
MaxTriggers == 4

\* Most messages in flight from the main thread to the worker.
MaxInbox == 2

\* Message types the main thread posts; "other" stands for every type the
\* handler has no branch for.
MessageTypes == { "shutdown", "sync_now", "other" }

\* runSync with the isRunning test left out: every trigger starts a run.
runSync_NoGuard(s) ==
    [s EXCEPT !.isRunning = TRUE,
              !.lastRunTime = s.clock,
              !.runs = @ + 1,
              !.started = @ + 1,
              !.lastLog = "started"]

\* runSync up to its first suspension: skip when a run is in progress, else
\* raise the flag, stamp lastRunTime and call sync.sync(), which is pending.
runSync(s) ==
    IF s.isRunning
    THEN [s EXCEPT !.skipped = @ + 1, !.lastLog = "skipped"]
    ELSE [s EXCEPT !.isRunning = TRUE,
                   !.lastRunTime = s.clock,
                   !.runs = @ + 1,
                   !.started = @ + 1,
                   !.lastLog = "started"]

\* The worker after its constructor and start(): the task is scheduled, no run
\* has happened, nothing is in flight.
InitScheduler ==
    /\ cache = << >>
    /\ accessOrder = << >>
    /\ now = 0
    /\ lastOp = NoOp
    /\ vq = << >>
    /\ rag = << >>
    /\ cacheDown = FALSE
    /\ fb = << >>
    /\ st = << >>
    /\ qa = << >>
    /\ sched = [ isRunning |-> FALSE, lastRunTime |-> Absent, taskStopped |-> FALSE,
                 runs |-> 0, inbox |-> << >>, clock |-> 0, triggers |-> 0,
                 started |-> 0, skipped |-> 0, errors |-> 0,
                 lastTrigger |-> "none", lastLog |-> "none" ]
    /\ reqs = << >>
    /\ chat = << >>

\* The cron task fires (only while the task is not stopped) and its callback
\* calls runSync.
CronTick ==
    /\ ~sched.taskStopped
    /\ sched.triggers < MaxTriggers
    /\ sched' = [runSync(sched) EXCEPT !.triggers = @ + 1, !.lastTrigger = "cron"]
    /\ UNCHANGED <<core, fb, st, qa, reqs, chat>>

\* The main thread posts a message to the worker.
PostMessage(type) ==
    /\ Len(sched.inbox) < MaxInbox
    /\ sched.triggers + Len(sched.inbox) < MaxTriggers
    /\ sched' = [sched EXCEPT !.inbox = Append(@, type)]
    /\ UNCHANGED <<core, fb, st, qa, reqs, chat>>

\* parentPort.on('message'): shutdown stops the task, sync_now calls runSync,
\* any other type is dropped.
OnMessage ==
    /\ sched.inbox # << >>
    /\ LET type == Head(sched.inbox)
           s == [sched EXCEPT !.inbox = Tail(@), !.triggers = @ + 1,
                              !.lastTrigger = type]
       IN  sched' = IF type = "shutdown"
                    THEN [s EXCEPT !.taskStopped = TRUE]
                    ELSE IF type = "sync_now"
                         THEN runSync(s)
                         ELSE s
    /\ UNCHANGED <<core, fb, st, qa, reqs, chat>>

\* runSync lowering the flag at the end of its try block instead of in a
\* finally: a failed run leaves it raised
SyncSettles_NoFinally(ok) ==
    /\ sched.runs > 0
    /\ sched' = [sched EXCEPT !.runs = @ - 1,
                              !.isRunning = ~ok,
                              !.errors = IF ok THEN @ ELSE @ + 1,
                              !.lastLog = IF ok THEN "completed" ELSE "failed"]
    /\ UNCHANGED <<core, fb, st, qa, reqs, chat>>

\* sync.sync() settles: the rest of runSync logs the outcome, posts the error
\* of a failed run to the main thread, and its finally lowers the flag.
SyncSettles(ok) ==
    /\ sched.runs > 0
    /\ sched' = [sched EXCEPT !.runs = @ - 1,
                              !.isRunning = FALSE,
                              !.errors = IF ok THEN @ ELSE @ + 1,
                              !.lastLog = IF ok THEN "completed" ELSE "failed"]
    /\ UNCHANGED <<core, fb, st, qa, reqs, chat>>

\* Time passes for the worker.
SchedulerTick ==
    /\ sched.clock < MaxTime
    /\ sched' = [sched EXCEPT !.clock = @ + 1]
    /\ UNCHANGED <<core, fb, st, qa, reqs, chat>>

NextScheduler ==
    \/ CronTick
    \/ \E type \in MessageTypes : PostMessage(type)
    \/ OnMessage
    \/ \E ok \in BOOLEAN : SyncSettles(ok)
    \/ SchedulerTick

SpecScheduler == InitScheduler /\ [][NextScheduler]_vars

\* A step in which the worker handles a trigger: a cron tick or a sync_now
\* message.
TriggerHandled ==
    /\ sched'.triggers = sched.triggers + 1
    /\ sched'.lastTrigger \in { "cron", "sync_now" }

\* C19: the scheduler prevents concurrent executions: at most one
\* synchronization run is in progress at any time; a trigger (cron tick or
\* sync_now message) handled while a run is in progress is skipped, it starts
\* no run and leaves nothing behind that starts one later (runs start only in
\* the step that handles a trigger, and only when no run is in progress).
C19_NoConcurrentRuns ==
    /\ [](sched.runs <= 1 /\ (sched.isRunning <=> sched.runs = 1))
    /\ [][ /\ (TriggerHandled /\ sched.runs > 0) =>
                /\ sched'.runs = sched.runs
                /\ sched'.started = sched.started
                /\ sched'.skipped = sched.skipped + 1
                /\ sched'.lastRunTime = sched.lastRunTime
                /\ Len(sched'.inbox) <= Len(sched.inbox)
           /\ (sched'.started # sched.started) =>
                /\ TriggerHandled
                /\ sched.runs = 0
                /\ sched'.started = sched.started + 1
                /\ sched'.runs = 1 ]_vars

\* Witness of C19: a sync_now message was handled while the run started by
\* the cron tick was still in progress, and was skipped.
C19_Witness ==
    /\ sched # << >>
    /\ sched.runs = 1
    /\ sched.started = 1
    /\ sched.skipped >= 1
    /\ sched.lastTrigger = "sync_now"
    /\ sched.lastLog = "skipped"

\* C26: when a synchronization run ends, completed or failed, the running
\* flag is false again; and a trigger handled while no run is in progress,
\* in particular the first one after a failed run, starts a new run.
C26_RunEndClearsFlag ==
    [][ /\ (sched'.runs < sched.runs)
           => /\ ~sched'.isRunning
              /\ sched'.lastLog \in { "completed", "failed" }
        /\ (TriggerHandled /\ sched.runs = 0)
           => /\ sched'.isRunning
              /\ sched'.runs = 1
              /\ sched'.started = sched.started + 1
              /\ sched'.lastRunTime = sched.clock
              /\ sched'.lastLog = "started" ]_vars

\* Witness of C26: a run failed, and the trigger after it started a second
\* run.
C26_Witness ==
    /\ sched.errors = 1
    /\ sched.started = 2
    /\ sched.skipped = 0
    /\ sched.runs = 1
    /\ sched.isRunning
    /\ sched.lastLog = "started"

(***************************************************************************)
(* ChatService: the sessions in memory, the conversations and messages of  *)
(* the database, and the calls of processMessage, endConversation and      *)
(* escalateToZendesk in flight.  A call runs without interruption from one *)
(* await to the next.  The FAQ search between the two saveMessage calls of *)
(* processMessage does not touch the session and is part of the step that  *)
(* follows the first one.  The database calls do not fail.                 *)
(***************************************************************************)
\* config.maxMessagesPerSession
maxMessagesPerSession == 2

\* config.sessionTimeout, in clock ticks
sessionTimeout == 1

\* Most calls the clients of the chat make in all.
MaxChatCalls == 4

ChatCalls == 1..2

\* "s1" is the session id of the conversation that was started, "s0" an id
\* no conversation has
ChatSessionIds == { "s1", "s0" }

\* a message that passes validation, and one that is empty or too long
ChatMessages == { "ok", "invalid" }

NoSession == [ present |-> FALSE, messageCount |-> 0, lastActivity |-> 0, status |-> None ]

IdleCall == [ pc |-> "idle", kind |-> None, sessionId |-> None, message |-> None,
              result |-> None, afterEnd |-> FALSE ]

\* the service after startConversation of "s1": the session is in memory,
\* the conversation is active, the welcome message is saved
InitChat ==
    /\ cache = << >>
    /\ accessOrder = << >>
    /\ now = 0
    /\ lastOp = NoOp
    /\ vq = << >>
    /\ rag = << >>
    /\ cacheDown = FALSE
    /\ fb = << >>
    /\ st = << >>
    /\ qa = << >>
    /\ sched = << >>
    /\ reqs = << >>
    /\ chat = [ activeSessions |->
                    [ sid \in ChatSessionIds |->
                        IF sid = "s1"
                        THEN [ present |-> TRUE, messageCount |-> 0, lastActivity |-> 0,
                               status |-> "active" ]
                        ELSE NoSession ],
                db |-> [ status |-> "active", userMessages |-> 0, botMessages |-> 1 ],
                calls |-> [ c \in ChatCalls |-> IdleCall ],
                started |-> 0,
                accepted |-> 0 ]

\* the call ends with {success: false, error}
Failed(call, error) == [call EXCEPT !.pc = "done", !.result = error]

\* restoreSession: the session of the conversation row, its count at 0
restoreSession(ch, sid) ==
    [ch EXCEPT !.activeSessions[sid] =
        [ present |-> TRUE, messageCount |-> 0, lastActivity |-> now,
          status |-> ch.db.status ]]

\* processMessage, lines 526-549, with the session in memory: the limit, the
\* validation, then the count and the first saveMessage
CheckAndCount(ch, c) ==
    LET call == ch.calls[c]
        session == ch.activeSessions[call.sessionId]
    IN  IF session.messageCount >= maxMessagesPerSession
        THEN [ch EXCEPT !.calls[c] = Failed(call, "Maximum messages per session exceeded")]
        ELSE IF call.message = "invalid"
        THEN [ch EXCEPT !.calls[c] = Failed(call, "Message cannot be empty")]
        ELSE [ch EXCEPT !.activeSessions[call.sessionId].lastActivity = now,
                        !.activeSessions[call.sessionId].messageCount = @ + 1,
                        !.accepted = @ + 1,
                        !.calls[c].pc = "saveUser"]

ChatStep(next) ==
    /\ chat' = next
    /\ UNCHANGED <<core, fb, st, qa, sched, reqs>>

\* a client calls processMessage(sessionId, message)
ProcessMessage(c, sid, message) ==
    /\ chat.calls[c].pc = "idle"
    /\ chat.started < MaxChatCalls
    /\ LET ch == [chat EXCEPT !.started = @ + 1,
                              !.calls[c] = [ IdleCall EXCEPT
                                    !.kind = "message", !.sessionId = sid,
                                    !.message = message,
                                    !.afterEnd = (sid = "s1" /\ chat.db.status # "active") ]]
       IN  IF chat.activeSessions[sid].present
           THEN ChatStep(CheckAndCount(ch, c))
           ELSE ChatStep([ch EXCEPT !.calls[c].pc = "getConversation"])

\* database.getConversation answers: no row is an invalid session, a row is
\* restored whatever its status
GetConversationReturns(c) ==
    /\ chat.calls[c].pc = "getConversation"
    /\ LET sid == chat.calls[c].sessionId
       IN  IF sid # "s1"
           THEN ChatStep([chat EXCEPT !.calls[c] = Failed(@, "Invalid session")])
           ELSE ChatStep(CheckAndCount(restoreSession(chat, sid), c))

\* the saveMessage of the user message answers
SaveUserReturns(c) ==
    /\ chat.calls[c].pc = "saveUser"
    /\ ChatStep([chat EXCEPT !.db.userMessages = @ + 1, !.calls[c].pc = "saveBot"])

\* the saveMessage of the bot response answers and processMessage succeeds
SaveBotReturns(c) ==
    /\ chat.calls[c].pc = "saveBot"
    /\ ChatStep([chat EXCEPT !.db.botMessages = @ + 1,
                             !.calls[c].pc = "done", !.calls[c].result = "success"])

\* a client calls endConversation(sessionId)
EndConversation(c, sid) ==
    /\ chat.calls[c].pc = "idle"
    /\ chat.started < MaxChatCalls
    /\ LET ch == [chat EXCEPT !.started = @ + 1,
                              !.calls[c] = [ IdleCall EXCEPT !.kind = "end",
                                                             !.sessionId = sid ]]
       IN  IF chat.activeSessions[sid].present
           THEN ChatStep([ch EXCEPT !.calls[c].pc = "updateStatus"])
           ELSE ChatStep([ch EXCEPT !.calls[c] = Failed(@, "Invalid session")])

\* a client calls escalateToZendesk(sessionId, contactData)
EscalateToZendesk(c, sid) ==
    /\ chat.calls[c].pc = "idle"
    /\ chat.started < MaxChatCalls
    /\ LET ch == [chat EXCEPT !.started = @ + 1,
                              !.calls[c] = [ IdleCall EXCEPT !.kind = "escalate",
                                                             !.sessionId = sid ]]
       IN  IF chat.activeSessions[sid].present
           THEN ChatStep([ch EXCEPT !.calls[c].pc = "zendesk"])
           ELSE ChatStep([ch EXCEPT !.calls[c] = Failed(@, "Invalid session")])

\* zendesk.escalateConversation answers, with a ticket or without
ZendeskReturns(c, success) ==
    /\ chat.calls[c].pc = "zendesk"
    /\ IF success
       THEN ChatStep([chat EXCEPT !.calls[c].pc = "updateStatus"])
       ELSE ChatStep([chat EXCEPT !.calls[c] = Failed(@, "escalation.error")])

\* updateConversationStatus answers: the conversation is resolved or
\* escalated and the session leaves the memory
UpdateStatusReturns(c) ==
    /\ chat.calls[c].pc = "updateStatus"
    /\ ChatStep([chat EXCEPT
            !.db.status = IF chat.calls[c].kind = "end" THEN "resolved" ELSE "escalated",
            !.activeSessions[chat.calls[c].sessionId] = NoSession,
            !.accepted = 0,
            !.calls[c].pc = "done", !.calls[c].result = "success"])

\* the client takes the result of its call
CallReturns(c) ==
    /\ chat.calls[c].pc = "done"
    /\ ChatStep([chat EXCEPT !.calls[c] = IdleCall])

\* the setInterval callback of the constructor
cleanupExpiredSessions ==
    /\ \E sid \in ChatSessionIds :
          /\ chat.activeSessions[sid].present
          /\ now - chat.activeSessions[sid].lastActivity > sessionTimeout
    /\ ChatStep([chat EXCEPT
            !.activeSessions =
                [ sid \in ChatSessionIds |->
                    IF /\ chat.activeSessions[sid].present
                       /\ now - chat.activeSessions[sid].lastActivity > sessionTimeout
                    THEN NoSession ELSE chat.activeSessions[sid] ],
            !.accepted = 0])

NextChat ==
    \/ \E c \in ChatCalls, sid \in ChatSessionIds, message \in ChatMessages :
          ProcessMessage(c, sid, message)
    \/ \E c \in ChatCalls : GetConversationReturns(c)
    \/ \E c \in ChatCalls : SaveUserReturns(c)
    \/ \E c \in ChatCalls : SaveBotReturns(c)
    \/ \E c \in ChatCalls, sid \in ChatSessionIds : EndConversation(c, sid)
    \/ \E c \in ChatCalls, sid \in ChatSessionIds : EscalateToZendesk(c, sid)
    \/ \E c \in ChatCalls, success \in BOOLEAN : ZendeskReturns(c, success)
    \/ \E c \in ChatCalls : UpdateStatusReturns(c)
    \/ \E c \in ChatCalls : CallReturns(c)
    \/ cleanupExpiredSessions
    \/ Tick

SpecChat == InitChat /\ [][NextChat]_vars

\* C27: over every sequence of processMessage calls, idle-session cleanups
\* and restores from the database, the conversation never has more than
\* maxMessagesPerSession user messages accepted (stated for a conversation
\* that was neither ended nor escalated).
C27_MessageLimitHolds ==
    (chat.db.status = "active") => chat.db.userMessages <= maxMessagesPerSession

\* C28: a processMessage called after the conversation was ended or
\* escalated is not accepted: it saves no user or bot message and does not
\* succeed.
C28_NoMessageAfterEnd ==
    \A c \in ChatCalls :
        (chat.calls[c].kind = "message" /\ chat.calls[c].afterEnd)
            => /\ chat.calls[c].pc \notin { "saveUser", "saveBot" }
               /\ chat.calls[c].result # "success"

\* C29: when the calls in flight have completed, the messageCount of the
\* session in memory equals the number of processMessage calls accepted
\* since the session came into memory (stated for a conversation that was
\* neither ended nor escalated).
C29_NoAcceptedMessageLost ==
    ( /\ \A c \in ChatCalls : chat.calls[c].pc \in { "idle", "done" }
      /\ chat.db.status = "active"
      /\ chat.activeSessions["s1"].present )
        => chat.activeSessions["s1"].messageCount = chat.accepted

====
